---- MODULE Spec2Model ----
(***************************************************************************)
(* A model of tooldirs: the platform directory resolver (platform_dirs.go, *)
(* dirs.go) and the upward marker search (findup.go).                      *)
(*                                                                         *)
(* A path is a sequence of string tokens.  The token "/" in first position *)
(* is the root of an absolute path; every other token is one path element  *)
(* as it appears between separators in the Go string ("" is the empty      *)
(* element a doubled or trailing separator leaves, "." and ".." are kept   *)
(* until Clean removes them).  The empty sequence is the empty string.     *)
(***************************************************************************)
EXTENDS Naturals, Sequences, FiniteSets, TLC

VARIABLES
    pd,         \* the PlatformDirs instance: its cfg and platform
    env,        \* the process environment, variable name -> value
    res,        \* the last resolver query and what it returned
    files,      \* the marker files that exist on the filesystem
    call,       \* the arguments of the upward search in progress
    pc,         \* the position of the search inside walkUp
    dir,        \* walkUp's local dir
    results,    \* walkUp's local results
    statLog,    \* every fileExists call of the search so far, in order
    predLog,    \* every path the predicate was called with, in order
    ret         \* what the search operation returned

resolverVars == <<pd, env, res>>
walkVars == <<files, call, pc, dir, results, statLog, predLog, ret>>
vars == <<pd, env, res, files, call, pc, dir, results, statLog, predLog, ret>>

(***************************************************************************)
(* path/filepath                                                           *)
(***************************************************************************)

Last(s) == s[Len(s)]

Front(s) == SubSeq(s, 1, Len(s) - 1)

IsAbs(p) == p # <<>> /\ p[1] = "/"

\* The element loop of filepath.Clean: "" and "." are dropped, ".." removes
\* the element before it, is dropped at the root and kept at the front of a
\* relative path.
RECURSIVE CleanElems(_, _, _)
CleanElems(elems, out, rooted) ==
    IF elems = <<>> THEN out
    ELSE LET e == Head(elems)
             rest == Tail(elems)
         IN  IF e \in {"", ".", "/"} THEN CleanElems(rest, out, rooted)
             ELSE IF e = ".."
                  THEN IF out # <<>> /\ Last(out) # ".."
                       THEN CleanElems(rest, Front(out), rooted)
                       ELSE IF rooted THEN CleanElems(rest, out, rooted)
                            ELSE CleanElems(rest, Append(out, ".."), rooted)
                  ELSE CleanElems(rest, Append(out, e), rooted)

Clean(p) ==
    IF p = <<>> THEN <<".">>
    ELSE IF IsAbs(p) THEN <<"/">> \o CleanElems(Tail(p), <<>>, TRUE)
         ELSE LET out == CleanElems(p, <<>>, FALSE)
              IN  IF out = <<>> THEN <<".">> ELSE out

\* filepath.Join of two elements: empty elements are ignored, the rest are
\* joined with a separator and cleaned; all empty gives the empty string.
Join(a, b) ==
    IF a = <<>> /\ b = <<>> THEN <<>>
    ELSE IF a = <<>> THEN Clean(b)
    ELSE IF b = <<>> THEN Clean(a)
    ELSE Clean(a \o b)

Join3(a, b, c) ==
    IF a = <<>> THEN Join(b, c)
    ELSE IF b = <<>> THEN Join(a, c)
    ELSE IF c = <<>> THEN Join(a, b)
    ELSE Clean(a \o b \o c)

\* filepath.Dir: everything before the last separator, cleaned.
Dir(p) ==
    IF p = <<>> THEN <<".">>
    ELSE IF IsAbs(p) /\ Len(p) = 1 THEN p
    ELSE Clean(Front(p))

(***************************************************************************)
(* The host: environment variables, home and temp directory, user id       *)
(***************************************************************************)

Uid == 1000

EnvVars ==
    {"HOME", "TMPDIR", "XDG_CONFIG_HOME", "XDG_DATA_HOME", "XDG_CACHE_HOME",
     "XDG_STATE_HOME", "XDG_RUNTIME_DIR", "APP_DIR"}

\* os.Getenv: the empty string for a variable that is not set.
Getenv(e, name) == IF name \in DOMAIN e THEN e[name] ELSE <<>>

\* os.UserHomeDir on a Unix build: $HOME, and "" (with an error the callers
\* drop) when it is empty.
UserHomeDir(e) == Getenv(e, "HOME")

\* os.TempDir on a Unix build: $TMPDIR, or /tmp when it is empty.
TempDir(e) ==
    IF Getenv(e, "TMPDIR") = <<>> THEN <<"/", "tmp">> ELSE Getenv(e, "TMPDIR")

(***************************************************************************)
(* dirs.go: Platform, Config, EnvOverrides; platform_dirs.go: dirType      *)
(***************************************************************************)

PlatformAuto == "auto"
PlatformLinux == "linux"
PlatformMacOS == "macos"
PlatformWindows == "windows"
PlatformFreeBSD == "freebsd"
PlatformOpenBSD == "openbsd"

ConcretePlatforms ==
    {PlatformLinux, PlatformMacOS, PlatformWindows, PlatformFreeBSD,
     PlatformOpenBSD}

userConfig == "userConfig"
userData == "userData"
userCache == "userCache"
userState == "userState"
userLog == "userLog"
userRuntime == "userRuntime"
systemConfig == "systemConfig"
systemData == "systemData"
systemCache == "systemCache"
systemState == "systemState"
systemLog == "systemLog"
systemRuntime == "systemRuntime"

UserDirKinds == {userConfig, userData, userCache, userState, userLog}

UserDirTypes == UserDirKinds \cup {userRuntime}

SystemDirTypes ==
    {systemConfig, systemData, systemCache, systemState, systemLog,
     systemRuntime}

DirTypes == UserDirTypes \cup SystemDirTypes

\* EnvOverrides.get: the variable name configured for a directory type.
get(ov, dt) == ov.name[dt]

(***************************************************************************)
(* platform_dirs.go: construction                                          *)
(***************************************************************************)

detectPlatform(goos) ==
    CASE goos = "darwin" -> PlatformMacOS
      [] goos = "windows" -> PlatformWindows
      [] goos = "freebsd" -> PlatformFreeBSD
      [] goos = "openbsd" -> PlatformOpenBSD
      [] OTHER -> PlatformLinux

\* NewWithConfig for a Config whose AppName is not blank.
NewWithConfig(c, goos) ==
    [cfg |-> c,
     platform |-> IF c.Platform = PlatformAuto THEN detectPlatform(goos)
                  ELSE c.Platform]

(***************************************************************************)
(* platform_dirs.go: path construction helpers                             *)
(***************************************************************************)

appPath(d) ==
    IF d.cfg.Version # "" THEN Join(<<d.cfg.AppName>>, <<d.cfg.Version>>)
    ELSE <<d.cfg.AppName>>

windowsAppPath(d) ==
    IF d.cfg.AppAuthor # "" THEN Join(<<d.cfg.AppAuthor>>, appPath(d))
    ELSE appPath(d)

isXDGPlatform(d) ==
    d.platform \in {PlatformLinux, PlatformFreeBSD, PlatformOpenBSD}

includeXDGFallbacks(d) ==
    IF d.cfg.IncludeXDGFallbacks = "nil" THEN TRUE
    ELSE d.cfg.IncludeXDGFallbacks = "true"

\* A fromEnvOverride that returns the value as it is whatever AppendAppName
\* says.
fromEnvOverride_Verbatim(d, e, dt) ==
    IF d.cfg.EnvOverrides.nil THEN <<>>
    ELSE IF get(d.cfg.EnvOverrides, dt) = "" THEN <<>>
         ELSE Getenv(e, get(d.cfg.EnvOverrides, dt))

\* A fromEnvOverride that appends the Windows application path, author
\* included, on the Windows platform.
fromEnvOverride_Author(d, e, dt) ==
    IF fromEnvOverride_Verbatim(d, e, dt) = <<>> THEN <<>>
    ELSE IF ~d.cfg.EnvOverrides.AppendAppName
         THEN fromEnvOverride_Verbatim(d, e, dt)
         ELSE IF d.platform = PlatformWindows
              THEN Join(fromEnvOverride_Verbatim(d, e, dt), windowsAppPath(d))
              ELSE Join(fromEnvOverride_Verbatim(d, e, dt), appPath(d))

fromEnvOverride(d, e, dt) ==
    IF d.cfg.EnvOverrides.nil THEN <<>>
    ELSE LET envVar == get(d.cfg.EnvOverrides, dt)
         IN  IF envVar = "" THEN <<>>
             ELSE LET val == Getenv(e, envVar)
                  IN  IF val = <<>> THEN <<>>
                      ELSE IF d.cfg.EnvOverrides.AppendAppName
                           THEN Join(val, appPath(d))
                           ELSE val

\* nonwindows.go: the Windows roots on a build that is not Windows.
windowsRoamingAppData(e) == Join(UserHomeDir(e), <<"AppData", "Roaming">>)

windowsLocalAppData(e) == Join(UserHomeDir(e), <<"AppData", "Local">>)

windowsProgramData == <<"/", "ProgramData">>


(***************************************************************************)
(* platform_dirs.go: user directory resolution                             *)
(***************************************************************************)

\* The XDG_*_HOME variable xdgUserDir and xdgUserDirEnvOnly read for a
\* directory type (userLog is derived from the state directory).
xdgEnvVar(dt) ==
    CASE dt = userConfig -> "XDG_CONFIG_HOME"
      [] dt = userData -> "XDG_DATA_HOME"
      [] dt = userCache -> "XDG_CACHE_HOME"
      [] dt \in {userState, userLog} -> "XDG_STATE_HOME"
      [] OTHER -> ""

\* The directory under home that xdgUserDir and xdgUserDirDefault use when
\* the variable is not read.
xdgHomeRelative(dt) ==
    CASE dt = userConfig -> <<".config">>
      [] dt = userData -> <<".local", "share">>
      [] dt = userCache -> <<".cache">>
      [] OTHER -> <<".local", "state">>

xdgUserDirDefault(d, e, dt) ==
    LET home == UserHomeDir(e)
    IN  IF dt \in {userConfig, userData, userCache, userState}
        THEN Join3(home, xdgHomeRelative(dt), appPath(d))
        ELSE IF dt = userLog
             THEN Join(Join3(home, <<".local", "state">>, appPath(d)),
                       <<"log">>)
             ELSE <<>>

xdgUserDirBase(d, e, dt) ==
    LET home == UserHomeDir(e)
        v == Getenv(e, xdgEnvVar(dt))
    IN  IF v # <<>> THEN Join(v, appPath(d))
        ELSE Join3(home, xdgHomeRelative(dt), appPath(d))

\* An xdgUserDir whose log directory has a place of its own under home.
xdgUserDir_LogApart(d, e, dt) ==
    IF dt \in {userConfig, userData, userCache, userState}
    THEN xdgUserDirBase(d, e, dt)
    ELSE IF dt = userLog
         THEN Join(xdgUserDirDefault(d, e, userState), <<"log">>)
         ELSE <<>>

xdgUserDir(d, e, dt) ==
    IF dt \in {userConfig, userData, userCache, userState}
    THEN xdgUserDirBase(d, e, dt)
    ELSE IF dt = userLog
         THEN Join(xdgUserDirBase(d, e, userState), <<"log">>)
         ELSE <<>>

xdgUserDirEnvOnly(d, e, dt) ==
    IF dt = userLog
    THEN LET state == Getenv(e, "XDG_STATE_HOME")
         IN  IF state # <<>> THEN Join3(state, appPath(d), <<"log">>)
             ELSE <<>>
    ELSE IF dt \in {userConfig, userData, userCache, userState}
         THEN LET v == Getenv(e, xdgEnvVar(dt))
              IN  IF v # <<>> THEN Join(v, appPath(d)) ELSE <<>>
         ELSE <<>>

macOSUserDir(d, e, dt) ==
    LET lib == Join(UserHomeDir(e), <<"Library">>)
    IN  CASE dt \in {userConfig, userData, userState} ->
                Join3(lib, <<"Application Support">>, appPath(d))
          [] dt = userCache -> Join3(lib, <<"Caches">>, appPath(d))
          [] dt = userLog -> Join3(lib, <<"Logs">>, appPath(d))
          [] OTHER -> <<>>

\* A windowsUserDir whose cache directory follows the Roaming flag.
windowsUserDir_CacheRoams(d, e, dt) ==
    CASE dt \in {userConfig, userData, userState} ->
            Join(IF d.cfg.Roaming THEN windowsRoamingAppData(e)
                 ELSE windowsLocalAppData(e),
                 windowsAppPath(d))
      [] dt = userCache ->
            Join3(IF d.cfg.Roaming THEN windowsRoamingAppData(e)
                  ELSE windowsLocalAppData(e),
                  windowsAppPath(d), <<"cache">>)
      [] dt = userLog ->
            Join3(windowsLocalAppData(e), windowsAppPath(d), <<"log">>)
      [] OTHER -> <<>>

windowsUserDir(d, e, dt) ==
    CASE dt \in {userConfig, userData, userState} ->
            Join(IF d.cfg.Roaming THEN windowsRoamingAppData(e)
                 ELSE windowsLocalAppData(e),
                 windowsAppPath(d))
      [] dt = userCache ->
            Join3(windowsLocalAppData(e), windowsAppPath(d), <<"cache">>)
      [] dt = userLog ->
            Join3(windowsLocalAppData(e), windowsAppPath(d), <<"log">>)
      [] OTHER -> <<>>

resolveUserDir(d, e, dt) ==
    IF isXDGPlatform(d) THEN xdgUserDir(d, e, dt)
    ELSE IF d.cfg.XDGOnAllPlatforms THEN xdgUserDir(d, e, dt)
    ELSE IF xdgUserDirEnvOnly(d, e, dt) # <<>>
         THEN xdgUserDirEnvOnly(d, e, dt)
    ELSE IF d.platform = PlatformMacOS THEN macOSUserDir(d, e, dt)
    ELSE IF d.platform = PlatformWindows THEN windowsUserDir(d, e, dt)
    ELSE xdgUserDir(d, e, dt)

\* fmt.Sprintf("%s-%d", AppName, os.Getuid())
runtimeFallbackName(d) == d.cfg.AppName \o "-" \o ToString(Uid)

\* A resolveRuntimeDir without the temporary directory fallback: an error
\* when XDG_RUNTIME_DIR is not set on Linux and the BSDs.
resolveRuntimeDir_NoFallback(d, e) ==
    IF Getenv(e, "XDG_RUNTIME_DIR") # <<>>
    THEN [path |-> Join(Getenv(e, "XDG_RUNTIME_DIR"), appPath(d)),
          err |-> FALSE]
    ELSE IF d.platform = PlatformMacOS
         THEN [path |-> Join(TempDir(e), appPath(d)), err |-> FALSE]
         ELSE IF d.platform = PlatformWindows
              THEN [path |-> Join3(windowsLocalAppData(e), windowsAppPath(d),
                                   <<"runtime">>),
                    err |-> FALSE]
              ELSE [path |-> <<>>, err |-> TRUE]

\* resolveRuntimeDir returns (path, error); err is TRUE for a non-nil error.
resolveRuntimeDir(d, e) ==
    LET xdg == Getenv(e, "XDG_RUNTIME_DIR")
    IN  IF (isXDGPlatform(d) \/ d.cfg.XDGOnAllPlatforms) /\ xdg # <<>>
        THEN [path |-> Join(xdg, appPath(d)), err |-> FALSE]
        ELSE IF xdg # <<>>
        THEN [path |-> Join(xdg, appPath(d)), err |-> FALSE]
        ELSE CASE d.platform \in {PlatformLinux, PlatformFreeBSD,
                                  PlatformOpenBSD} ->
                    [path |-> Join(TempDir(e), <<runtimeFallbackName(d)>>),
                     err |-> FALSE]
               [] d.platform = PlatformMacOS ->
                    [path |-> Join(TempDir(e), appPath(d)), err |-> FALSE]
               [] d.platform = PlatformWindows ->
                    [path |-> Join3(windowsLocalAppData(e), windowsAppPath(d),
                                    <<"runtime">>),
                     err |-> FALSE]
               [] OTHER -> [path |-> <<>>, err |-> TRUE]

\* A resolveUserDirForFallbacks that leaves the application's variable out,
\* as its comment in the source describes it.
resolveUserDirForFallbacks_NoOverride(d, e, dt) == resolveUserDir(d, e, dt)

\* resolveUserDirForFallbacks: the primary directory of a User*Dirs list.
resolveUserDirForFallbacks(d, e, dt) ==
    IF fromEnvOverride(d, e, dt) # <<>> THEN fromEnvOverride(d, e, dt)
    ELSE resolveUserDir(d, e, dt)

\* A userDirsWithFallbacks that appends the XDG default without comparing
\* it with the primary directory.
userDirsWithFallbacks_NoCompare(d, e, dt) ==
    LET primary == resolveUserDirForFallbacks(d, e, dt)
        xdgFallback == xdgUserDirDefault(d, e, dt)
    IN  IF isXDGPlatform(d) \/ d.cfg.XDGOnAllPlatforms THEN <<primary>>
        ELSE IF ~includeXDGFallbacks(d) THEN <<primary>>
        ELSE <<primary, xdgFallback>>

userDirsWithFallbacks(d, e, dt) ==
    LET primary == resolveUserDirForFallbacks(d, e, dt)
        xdgFallback == xdgUserDirDefault(d, e, dt)
    IN  IF isXDGPlatform(d) \/ d.cfg.XDGOnAllPlatforms THEN <<primary>>
        ELSE IF ~includeXDGFallbacks(d) THEN <<primary>>
        ELSE IF xdgFallback = <<>> \/ xdgFallback = primary THEN <<primary>>
        ELSE <<primary, xdgFallback>>

(***************************************************************************)
(* platform_dirs.go: the public user directory queries                     *)
(***************************************************************************)

\* UserConfigDir, UserDataDir, UserCacheDir, UserStateDir, UserLogDir.
UserDir(d, e, dt) ==
    IF fromEnvOverride(d, e, dt) # <<>> THEN fromEnvOverride(d, e, dt)
    ELSE resolveUserDir(d, e, dt)

\* UserConfigDirs, UserDataDirs, UserCacheDirs, UserStateDirs, UserLogDirs.
UserDirs(d, e, dt) == userDirsWithFallbacks(d, e, dt)

UserRuntimeDir(d, e) ==
    IF fromEnvOverride(d, e, userRuntime) # <<>>
    THEN [path |-> fromEnvOverride(d, e, userRuntime), err |-> FALSE]
    ELSE resolveRuntimeDir(d, e)


(***************************************************************************)
(* The resolver as a state machine                                         *)
(***************************************************************************)

MaxXdgSet == 1

Home == <<"/", "h">>

XdgVars ==
    {"XDG_CONFIG_HOME", "XDG_DATA_HOME", "XDG_CACHE_HOME", "XDG_STATE_HOME",
     "XDG_RUNTIME_DIR"}

SettableVars == XdgVars \cup {"APP_DIR"}

\* The values the host gives a variable: a directory of its own and, for
\* the config variable and the application's variable, the XDG default
\* location under home.
EnvValues(name) ==
    CASE name = "XDG_CONFIG_HOME" -> {<<"/", "x">>, <<"/", "h", ".config">>}
      [] name = "APP_DIR" -> {<<"/", "o">>, <<"/", "h", ".config">>}
      [] OTHER -> {<<"/", "x">>}

NoOverrides ==
    [nil |-> TRUE, AppendAppName |-> FALSE, name |-> [dt \in DirTypes |-> ""]]

\* EnvOverrides is nil, or names the variable APP_DIR for no directory type
\* or for one user directory type.
OverrideChoices ==
    {NoOverrides} \cup
    {[nil |-> FALSE, AppendAppName |-> a,
      name |-> [dt \in DirTypes |-> IF dt \in named THEN "APP_DIR" ELSE ""]] :
        a \in BOOLEAN,
        named \in {{}} \cup {{dt} : dt \in UserDirTypes}}

\* AppAuthor and Roaming are read by the Windows functions alone, so they
\* vary on the Windows platform only.
Configs ==
    {c \in [AppName : {"app"},
            AppAuthor : {"", "Acme"},
            Version : {"", "1.0"},
            Roaming : BOOLEAN,
            XDGOnAllPlatforms : BOOLEAN,
            IncludeXDGFallbacks : {"nil", "true", "false"},
            EnvOverrides : OverrideChoices,
            Platform : ConcretePlatforms] :
        c.Platform # PlatformWindows => (c.AppAuthor = "" /\ ~c.Roaming)}

NoResult == [op |-> "none", dt |-> "", paths |-> <<>>, err |-> FALSE]

InitResolver ==
    /\ \E c \in Configs : pd = NewWithConfig(c, "linux")
    /\ env = [v \in EnvVars |-> IF v = "HOME" THEN Home ELSE <<>>]
    /\ res = NoResult

\* os.Setenv by the host, between two queries.
Setenv ==
    \E name \in SettableVars :
        \E val \in EnvValues(name) \cup {<<>>} :
            /\ res = NoResult
            /\ env[name] # val
            /\ Cardinality({v \in XdgVars :
                              IF v = name THEN val # <<>> ELSE env[v] # <<>>})
                    <= MaxXdgSet
            /\ env' = [env EXCEPT ![name] = val]
            /\ UNCHANGED <<pd, res>>

\* UserConfigDir, UserDataDir, UserCacheDir, UserStateDir, UserLogDir
CallUserDir ==
    \E dt \in UserDirKinds :
        /\ res = NoResult
        /\ res' = [op |-> "UserDir", dt |-> dt,
                   paths |-> <<UserDir(pd, env, dt)>>, err |-> FALSE]
        /\ UNCHANGED <<pd, env>>

\* UserConfigDirs, UserDataDirs, UserCacheDirs, UserStateDirs, UserLogDirs
CallUserDirs ==
    \E dt \in UserDirKinds :
        /\ res = NoResult
        /\ res' = [op |-> "UserDirs", dt |-> dt,
                   paths |-> UserDirs(pd, env, dt), err |-> FALSE]
        /\ UNCHANGED <<pd, env>>

CallUserRuntimeDir ==
    /\ res = NoResult
    /\ res' = [op |-> "UserDir", dt |-> userRuntime,
               paths |-> <<UserRuntimeDir(pd, env).path>>,
               err |-> UserRuntimeDir(pd, env).err]
    /\ UNCHANGED <<pd, env>>

\* The caller takes the result; the next query or Setenv may follow.
Return ==
    /\ res # NoResult
    /\ res' = NoResult
    /\ UNCHANGED <<pd, env>>

WalkIdle ==
    /\ files = {}
    /\ call =
         [op |-> "none", start |-> <<>>, getwdFails |-> FALSE,
          markers |-> <<>>, stopAt |-> <<>>, matchFn |-> "nil",
          collectAll |-> FALSE]
    /\ pc = "idle"
    /\ dir = <<>>
    /\ results = <<>>
    /\ statLog = <<>>
    /\ predLog = <<>>
    /\ ret = [found |-> FALSE, dir |-> <<>>, marker |-> "", matches |-> <<>>]

Init == InitResolver /\ WalkIdle

Next ==
    \/ Setenv /\ UNCHANGED walkVars
    \/ CallUserDir /\ UNCHANGED walkVars
    \/ CallUserDirs /\ UNCHANGED walkVars
    \/ CallUserRuntimeDir /\ UNCHANGED walkVars
    \/ Return /\ UNCHANGED walkVars

Spec == Init /\ [][Next]_vars


(***************************************************************************)
(* findup.go: the upward search                                            *)
(***************************************************************************)

MaxDepth == 2
MaxFiles == 2

\* The directory chain /, /d1, /d1/d2, ...
RECURSIVE Chain(_)
Chain(i) == IF i = 0 THEN <<"/">> ELSE Append(Chain(i - 1), "d" \o ToString(i))

MarkerNames == {"go.mod", ".git"}

\* Every file a search on the chain can ask for.
CandidateFiles == {Append(Chain(i), m) : i \in 0..MaxDepth, m \in MarkerNames}

Filesystems == {fs \in SUBSET CandidateFiles : Cardinality(fs) <= MaxFiles}

\* The working directory filepath.Abs resolves a relative start against.
Getwd == Chain(MaxDepth - 1)

IsPrefix(p, q) == Len(p) <= Len(q) /\ SubSeq(q, 1, Len(p)) = p

\* fileExists: os.Stat succeeds.  A file of the filesystem exists, and so
\* does every directory above it; a relative path is looked up from a
\* working directory that is gone, and does not exist.
fileExists(fs, path) ==
    /\ IsAbs(path)
    /\ \/ path = <<"/">>
       \/ \E f \in fs : IsPrefix(path, f)

\* The match predicates a caller passes to the *Func operations: one that
\* rejects every path and one that rejects the files named go.mod.
MatchFns == {"never", "rejectGoMod"}

\* The call matchFn(markerPath).
ApplyMatchFn(fn, markerPath) ==
    CASE fn = "never" -> FALSE
      [] fn = "rejectGoMod" -> Last(markerPath) # "go.mod"

\* cleanAbsPath: Clean, then Abs (Join with the working directory) for a
\* relative path unless Getwd fails.
cleanAbsPath(path, getwdFails) ==
    LET d == Clean(path)
    IN  IF ~IsAbs(d) /\ ~getwdFails THEN Join(Getwd, d) ELSE d

\* checkMarkers from marker i on: the Match found, with the fileExists and
\* matchFn calls made on the way, in order.
RECURSIVE checkMarkersFrom(_, _, _, _, _, _, _)
checkMarkersFrom(fs, d, markers, matchFn, i, stats, preds) ==
    IF i > Len(markers)
    THEN [found |-> FALSE, match |-> [Dir |-> <<>>, Marker |-> ""],
          stats |-> stats, preds |-> preds]
    ELSE LET m == markers[i]
             markerPath == Join(d, <<m>>)
             stats1 == Append(stats, [path |-> markerPath, dir |-> d,
                                      kind |-> "marker"])
         IN  IF fileExists(fs, markerPath)
             THEN IF matchFn = "nil"
                  THEN [found |-> TRUE, match |-> [Dir |-> d, Marker |-> m],
                        stats |-> stats1, preds |-> preds]
                  ELSE IF ApplyMatchFn(matchFn, markerPath)
                       THEN [found |-> TRUE,
                             match |-> [Dir |-> d, Marker |-> m],
                             stats |-> stats1,
                             preds |-> Append(preds, markerPath)]
                       ELSE checkMarkersFrom(fs, d, markers, matchFn, i + 1,
                                             stats1,
                                             Append(preds, markerPath))
             ELSE checkMarkersFrom(fs, d, markers, matchFn, i + 1, stats1,
                                   preds)

\* A marker check that calls the predicate before it asks for the file.
RECURSIVE checkMarkersPredicateFirst(_, _, _, _, _, _, _)
checkMarkersPredicateFirst(fs, d, markers, matchFn, i, stats, preds) ==
    IF i > Len(markers)
    THEN [found |-> FALSE, match |-> [Dir |-> <<>>, Marker |-> ""],
          stats |-> stats, preds |-> preds]
    ELSE LET m == markers[i]
             markerPath == Join(d, <<m>>)
             stats1 == Append(stats, [path |-> markerPath, dir |-> d,
                                      kind |-> "marker"])
             preds1 == IF matchFn = "nil" THEN preds
                       ELSE Append(preds, markerPath)
         IN  IF /\ matchFn # "nil" => ApplyMatchFn(matchFn, markerPath)
                /\ fileExists(fs, markerPath)
             THEN [found |-> TRUE, match |-> [Dir |-> d, Marker |-> m],
                   stats |-> stats1, preds |-> preds1]
             ELSE checkMarkersPredicateFirst(fs, d, markers, matchFn, i + 1,
                                             stats1, preds1)

checkMarkers_PredicateFirst(fs, d, markers, matchFn) ==
    checkMarkersPredicateFirst(fs, d, markers, matchFn, 1, <<>>, <<>>)

\* A marker check that settles the directory on the first marker that
\* exists: a predicate that rejects it leaves the directory without Match.
firstExistingDecides(c, d, matchFn) ==
    IF ~c.found \/ matchFn = "nil" THEN c
    ELSE IF ApplyMatchFn(matchFn, Join(d, <<c.match.Marker>>))
         THEN [c EXCEPT !.preds = <<Join(d, <<c.match.Marker>>)>>]
         ELSE [found |-> FALSE, match |-> [Dir |-> <<>>, Marker |-> ""],
               stats |-> c.stats, preds |-> <<Join(d, <<c.match.Marker>>)>>]

checkMarkers_FirstExisting(fs, d, markers, matchFn) ==
    firstExistingDecides(checkMarkersFrom(fs, d, markers, "nil", 1, <<>>, <<>>),
                         d, matchFn)

\* A marker check that goes through the caller's list from its end.
checkMarkers_Reversed(fs, d, markers, matchFn) ==
    checkMarkersFrom(fs, d,
                     [i \in 1..Len(markers) |-> markers[Len(markers) + 1 - i]],
                     matchFn, 1, <<>>, <<>>)

checkMarkers(fs, d, markers, matchFn) ==
    checkMarkersFrom(fs, d, markers, matchFn, 1, <<>>, <<>>)

\* shouldStop from stop marker i on, with the fileExists calls it makes.
RECURSIVE shouldStopFrom(_, _, _, _, _)
shouldStopFrom(fs, d, stopAt, i, stats) ==
    IF i > Len(stopAt) THEN [stop |-> FALSE, stats |-> stats]
    ELSE LET stopPath == Join(d, <<stopAt[i]>>)
             stats1 == Append(stats, [path |-> stopPath, dir |-> d,
                                      kind |-> "stop"])
         IN  IF fileExists(fs, stopPath) THEN [stop |-> TRUE, stats |-> stats1]
             ELSE shouldStopFrom(fs, d, stopAt, i + 1, stats1)

\* A stop check that looks for the stop markers and never stops.
shouldStop_Never(fs, d, stopAt) ==
    [stop |-> FALSE, stats |-> shouldStopFrom(fs, d, stopAt, 1, <<>>).stats]

shouldStop(fs, d, stopAt) == shouldStopFrom(fs, d, stopAt, 1, <<>>)

(***************************************************************************)
(* The upward search as a state machine                                    *)
(***************************************************************************)

\* Start paths: the root, the deepest directory of the chain, that
\* directory with a ".." element behind it, and a relative path.
AbsStartPaths ==
    {Chain(0), Chain(MaxDepth), Chain(MaxDepth) \o <<"..">>}

RelStartPaths == {<<"d" \o ToString(MaxDepth)>>}

\* Marker lists of every length, the longest in both orders.
MarkerLists ==
    {<<>>, <<"go.mod">>, <<"go.mod", ".git">>, <<".git", "go.mod">>}

\* The stop lists of the *Until operations; the other operations pass nil.
StopLists == {<<".git">>, <<"go.mod">>}

\* The start argument with the outcome of os.Getwd, which filepath.Abs
\* calls for a relative path only.
Starts ==
    {[path |-> sp, getwdFails |-> FALSE] : sp \in AbsStartPaths \cup RelStartPaths}
    \cup {[path |-> sp, getwdFails |-> TRUE] : sp \in RelStartPaths}

NoCall ==
    [op |-> "none", start |-> <<>>, getwdFails |-> FALSE, markers |-> <<>>,
     stopAt |-> <<>>, matchFn |-> "nil", collectAll |-> FALSE]

NoReturn == [found |-> FALSE, dir |-> <<>>, marker |-> "", matches |-> <<>>]

\* The resolver stays as constructed while searches run.
ResolverIdle ==
    /\ \E c \in {x \in Configs : x.Platform = PlatformLinux /\ x.Version = ""
                                 /\ x.EnvOverrides = NoOverrides
                                 /\ ~x.XDGOnAllPlatforms
                                 /\ x.IncludeXDGFallbacks = "nil"} :
            pd = NewWithConfig(c, "linux")
    /\ env = [v \in EnvVars |-> IF v = "HOME" THEN Home ELSE <<>>]
    /\ res = NoResult

InitWalk ==
    /\ ResolverIdle
    /\ files \in Filesystems
    /\ call = NoCall
    /\ pc = "idle"
    /\ dir = <<>>
    /\ results = <<>>
    /\ statLog = <<>>
    /\ predLog = <<>>
    /\ ret = NoReturn

\* An operation calls walkUp(start, markers, stopAt, matchFn, collectAll).
Enter(op, st, markers, stopAt, matchFn, collectAll) ==
    /\ call' = [op |-> op, start |-> st.path, getwdFails |-> st.getwdFails,
                markers |-> markers, stopAt |-> stopAt, matchFn |-> matchFn,
                collectAll |-> collectAll]
    /\ pc' = "walkUp"
    /\ UNCHANGED <<files, dir, results, statLog, predLog, ret>>

FindUp ==
    /\ pc = "idle"
    /\ \E st \in Starts, markers \in MarkerLists :
           Enter("FindUp", st, markers, <<>>, "nil", FALSE)

FindUpFunc ==
    /\ pc = "idle"
    /\ \E st \in Starts, markers \in MarkerLists, match \in MatchFns :
           Enter("FindUpFunc", st, markers, <<>>, match, FALSE)

FindUpUntil ==
    /\ pc = "idle"
    /\ \E st \in Starts, markers \in MarkerLists, stopAt \in StopLists :
           Enter("FindUpUntil", st, markers, stopAt, "nil", FALSE)

FindUpUntilFunc ==
    /\ pc = "idle"
    /\ \E st \in Starts, markers \in MarkerLists, stopAt \in StopLists,
          match \in MatchFns :
           Enter("FindUpUntilFunc", st, markers, stopAt, match, FALSE)

FindAllUp ==
    /\ pc = "idle"
    /\ \E st \in Starts, markers \in MarkerLists :
           Enter("FindAllUp", st, markers, <<>>, "nil", TRUE)

FindAllUpFunc ==
    /\ pc = "idle"
    /\ \E st \in Starts, markers \in MarkerLists, match \in MatchFns :
           Enter("FindAllUpFunc", st, markers, <<>>, match, TRUE)

FindAllUpUntil ==
    /\ pc = "idle"
    /\ \E st \in Starts, markers \in MarkerLists, stopAt \in StopLists :
           Enter("FindAllUpUntil", st, markers, stopAt, "nil", TRUE)

FindAllUpUntilFunc ==
    /\ pc = "idle"
    /\ \E st \in Starts, markers \in MarkerLists, stopAt \in StopLists,
          match \in MatchFns :
           Enter("FindAllUpUntilFunc", st, markers, stopAt, match, TRUE)

\* A walkUp without the early return.
walkUpReturnsAtOnce_Never(markers) == FALSE

\* walkUp, lines 109-114: the empty marker list returns nil at once.
walkUpReturnsAtOnce(markers) == Len(markers) = 0

WalkUpEntry ==
    /\ pc = "walkUp"
    /\ IF walkUpReturnsAtOnce(call.markers)
       THEN /\ pc' = "return"
            /\ UNCHANGED dir
       ELSE /\ dir' = cleanAbsPath(call.start, call.getwdFails)
            /\ pc' = "loop"
    /\ results' = <<>>
    /\ UNCHANGED <<files, call, statLog, predLog, ret>>

\* A walkUp that puts each Match in front of the ones found before.
appendMatch_Prepend(rs, match) == <<match>> \o rs

\* walkUp, line 118: results = append(results, match)
appendMatch(rs, match) == Append(rs, match)

\* A loop that does not notice the directory that is its own parent.
atRoot_Never(parent, d) == FALSE

\* walkUp, lines 129-131: the loop ends when the parent is the directory.
atRoot(parent, d) == parent = d

\* A loop body that runs the stop check first and leaves at a stop marker.
WalkUpLoop_StopFirst ==
    /\ pc = "loop"
    /\ \E s \in {shouldStop(files, dir, call.stopAt)},
          c \in {checkMarkers(files, dir, call.markers, call.matchFn)},
          parent \in {Dir(dir)} :
           IF s.stop
           THEN /\ statLog' = statLog \o s.stats
                /\ pc' = "return"
                /\ UNCHANGED <<predLog, results, dir>>
           ELSE /\ statLog' = statLog \o s.stats \o c.stats
                /\ predLog' = predLog \o c.preds
                /\ results' = IF c.found THEN appendMatch(results, c.match)
                              ELSE results
                /\ IF (c.found /\ ~call.collectAll) \/ atRoot(parent, dir)
                   THEN pc' = "return" /\ UNCHANGED dir
                   ELSE dir' = parent /\ pc' = "loop"
    /\ UNCHANGED <<files, call, ret>>

\* walkUp, lines 116-133: one iteration of the loop.  The marker check of
\* the current directory, then its stop check, then up to the parent.  The
\* calls are bound once each; shouldStop is pure here, and its existence
\* checks are logged only on the path that makes the call.
WalkUpLoop ==
    /\ pc = "loop"
    /\ \E c \in {checkMarkers(files, dir, call.markers, call.matchFn)},
          s \in {shouldStop(files, dir, call.stopAt)},
          parent \in {Dir(dir)} :
           /\ predLog' = predLog \o c.preds
           /\ results' = IF c.found THEN appendMatch(results, c.match)
                         ELSE results
           /\ IF c.found /\ ~call.collectAll
              THEN /\ statLog' = statLog \o c.stats
                   /\ pc' = "return"
                   /\ UNCHANGED dir
              ELSE /\ statLog' = statLog \o c.stats \o s.stats
                   /\ IF s.stop \/ atRoot(parent, dir)
                      THEN pc' = "return" /\ UNCHANGED dir
                      ELSE dir' = parent /\ pc' = "loop"
    /\ UNCHANGED <<files, call, ret>>

\* A FindUp* that reports the last Match it was handed and takes a single
\* Match for none.
operationResult_LastOfSeveral(collectAll, matches) ==
    IF collectAll
    THEN [found |-> FALSE, dir |-> <<>>, marker |-> "", matches |-> matches]
    ELSE IF Len(matches) <= 1 THEN NoReturn
         ELSE [found |-> TRUE, dir |-> matches[Len(matches)].Dir,
               marker |-> matches[Len(matches)].Marker, matches |-> <<>>]

\* The operation's return: the first Match as (dir, marker, true) or
\* ("", "", false) for FindUp*, the Match slice for FindAllUp*.
operationResult(collectAll, matches) ==
    IF collectAll
    THEN [found |-> FALSE, dir |-> <<>>, marker |-> "", matches |-> matches]
    ELSE IF Len(matches) = 0 THEN NoReturn
         ELSE [found |-> TRUE, dir |-> matches[1].Dir,
               marker |-> matches[1].Marker, matches |-> <<>>]

WalkUpReturn ==
    /\ pc = "return"
    /\ ret' = operationResult(call.collectAll, results)
    /\ pc' = "done"
    /\ UNCHANGED <<files, call, dir, results, statLog, predLog>>

\* The caller takes the result; the next search may follow.
Finish ==
    /\ pc = "done"
    /\ pc' = "idle"
    /\ call' = NoCall
    /\ dir' = <<>>
    /\ results' = <<>>
    /\ statLog' = <<>>
    /\ predLog' = <<>>
    /\ ret' = NoReturn
    /\ UNCHANGED files

WalkStep ==
    \/ WalkUpEntry
    \/ WalkUpLoop
    \/ WalkUpReturn

NextWalk ==
    \/ FindUp /\ UNCHANGED resolverVars
    \/ FindUpFunc /\ UNCHANGED resolverVars
    \/ FindUpUntil /\ UNCHANGED resolverVars
    \/ FindUpUntilFunc /\ UNCHANGED resolverVars
    \/ FindAllUp /\ UNCHANGED resolverVars
    \/ FindAllUpFunc /\ UNCHANGED resolverVars
    \/ FindAllUpUntil /\ UNCHANGED resolverVars
    \/ FindAllUpUntilFunc /\ UNCHANGED resolverVars
    \/ WalkUpEntry /\ UNCHANGED resolverVars
    \/ WalkUpLoop /\ UNCHANGED resolverVars
    \/ WalkUpReturn /\ UNCHANGED resolverVars
    \/ Finish /\ UNCHANGED resolverVars

SpecWalk == InitWalk /\ [][NextWalk]_vars

\* The search is sequential code: a step that can be taken is taken.
SpecWalkFair == SpecWalk /\ WF_vars(WalkStep /\ UNCHANGED resolverVars)

(***************************************************************************)
(* Claims about the resolver                                               *)
(***************************************************************************)

\* The variable the XDG algorithm reads for a user directory type.
XdgVarOf(dt) == IF dt = userRuntime THEN "XDG_RUNTIME_DIR" ELSE xdgEnvVar(dt)

\* The application's variable is named for the type and set non-empty.
OverrideApplies(dt) ==
    /\ ~pd.cfg.EnvOverrides.nil
    /\ pd.cfg.EnvOverrides.name[dt] # ""
    /\ Getenv(env, pd.cfg.EnvOverrides.name[dt]) # <<>>

\* The result of the XDG algorithm: the XDG_* variable or the default under
\* home, and for the runtime directory XDG_RUNTIME_DIR or the fallback
\* {tempDir}/{appName}-{uid}.
XdgResult(dt) ==
    IF dt = userRuntime
    THEN IF Getenv(env, "XDG_RUNTIME_DIR") # <<>>
         THEN Join(Getenv(env, "XDG_RUNTIME_DIR"), appPath(pd))
         ELSE Join(TempDir(env), <<pd.cfg.AppName \o "-" \o ToString(Uid)>>)
    ELSE xdgUserDir(pd, env, dt)

\* The platform-native path of macOS and Windows.
NativeResult(dt) ==
    IF pd.platform = PlatformMacOS
    THEN IF dt = userRuntime THEN Join(TempDir(env), appPath(pd))
         ELSE macOSUserDir(pd, env, dt)
    ELSE IF dt = userRuntime
         THEN Join3(windowsLocalAppData(env), windowsAppPath(pd),
                    <<"runtime">>)
         ELSE windowsUserDir(pd, env, dt)

FirstApplicableRule(dt) ==
    IF OverrideApplies(dt) THEN fromEnvOverride(pd, env, dt)
    ELSE IF \/ isXDGPlatform(pd)
            \/ pd.cfg.XDGOnAllPlatforms
            \/ Getenv(env, XdgVarOf(dt)) # <<>>
         THEN XdgResult(dt)
         ELSE NativeResult(dt)

\* C1: for every user directory kind, the runtime directory included, on
\* every platform and in every environment the primary path is the result
\* of the first applicable rule: the application's override, then the XDG
\* result (XDG platform, XDGOnAllPlatforms, or the XDG variable of the kind
\* set), then the platform-native path.
C1_PrimaryIsFirstApplicableRule ==
    res.op = "UserDir" =>
        /\ ~res.err
        /\ res.paths[1] = FirstApplicableRule(res.dt)

\* C2: a User<K>Dirs list is never empty and its first element is what
\* User<K>Dir returns in the same environment.
C2_DirsHeadIsDir ==
    res.op = "UserDirs" =>
        /\ Len(res.paths) >= 1
        /\ res.paths[1] = UserDir(pd, env, res.dt)

\* C2 witness: a two-element list whose head comes from the application's
\* override.
C2_Witness ==
    /\ res.op = "UserDirs"
    /\ Len(res.paths) = 2
    /\ OverrideApplies(res.dt)

\* The environment with every XDG_* variable removed.
EnvWithoutXdg == [v \in EnvVars |-> IF v \in XdgVars THEN <<>> ELSE env[v]]

\* The XDG default of a kind: what the XDG algorithm gives from the home
\* directory when no XDG_* variable is set.
XdgDefault(dt) == xdgUserDir(pd, EnvWithoutXdg, dt)

FallbackCondition(dt) ==
    /\ pd.platform \in {PlatformMacOS, PlatformWindows}
    /\ ~pd.cfg.XDGOnAllPlatforms
    /\ pd.cfg.IncludeXDGFallbacks \in {"nil", "true"}
    /\ XdgDefault(dt) # UserDir(pd, env, dt)

\* C3: a User<K>Dirs list has two elements, the second the XDG default
\* computed from home, exactly when the platform is macOS or Windows,
\* XDGOnAllPlatforms is false, IncludeXDGFallbacks is nil or true and the
\* default differs from the primary path; otherwise it has one element.
C3_FallbackExactlyWhen ==
    res.op = "UserDirs" =>
        IF FallbackCondition(res.dt)
        THEN Len(res.paths) = 2 /\ res.paths[2] = XdgDefault(res.dt)
        ELSE Len(res.paths) = 1

\* C3 witness: a two-element list on macOS or Windows while the XDG
\* variable of the kind is set, so the second element is not read from it.
C3_Witness ==
    /\ res.op = "UserDirs"
    /\ Len(res.paths) = 2
    /\ Getenv(env, XdgVarOf(res.dt)) # <<>>

\* A list kept at one element on macOS or Windows only because the default
\* equals the primary path.
C3_EqualDefaultReached ==
    /\ res.op = "UserDirs"
    /\ pd.platform \in {PlatformMacOS, PlatformWindows}
    /\ ~pd.cfg.XDGOnAllPlatforms
    /\ pd.cfg.IncludeXDGFallbacks \in {"nil", "true"}
    /\ Len(res.paths) = 1


(***************************************************************************)
(* Claims about the upward search                                          *)
(***************************************************************************)

\* The directory the traversal starts in.
StartDir == cleanAbsPath(call.start, call.getwdFails)

\* The chain d, parent(d), ..., up to the directory that is its own parent.
RECURSIVE ChainUp(_)
ChainUp(d) == IF Dir(d) = d THEN <<d>> ELSE <<d>> \o ChainUp(Dir(d))

ProperAncestor(a, b) == a # b /\ IsPrefix(a, b)

\* Marker m counts as matched in directory d: d/m exists and the predicate,
\* when there is one, accepts d/m.
Matches(d, m) ==
    /\ fileExists(files, Join(d, <<m>>))
    /\ call.matchFn # "nil" => ApplyMatchFn(call.matchFn, Join(d, <<m>>))

HasMatch(d) == \E i \in 1..Len(call.markers) : Matches(d, call.markers[i])

HasStop(d) ==
    \E i \in 1..Len(call.stopAt) : fileExists(files, Join(d, <<call.stopAt[i]>>))

Min(S) == CHOOSE x \in S : \A y \in S : x <= y

\* The first marker of the caller's list that counts as matched in d.
FirstMatching(d) ==
    call.markers[Min({i \in 1..Len(call.markers) : Matches(d, call.markers[i])})]

\* The first marker of the caller's list that exists in d.
FirstExisting(d) ==
    call.markers[Min({i \in 1..Len(call.markers) :
                        fileExists(files, Join(d, <<call.markers[i]>>))})]

\* The chain from the start directory, cut after the first stop directory.
CutChain ==
    LET chain == ChainUp(StartDir)
        stops == {i \in 1..Len(chain) : HasStop(chain[i])}
    IN  IF stops = {} THEN chain ELSE SubSeq(chain, 1, Min(stops))

\* How often the traversal has run the marker check of directory d: each
\* run asks for the first marker once.
VisitCount(d) ==
    Cardinality({i \in 1..Len(statLog) :
                    /\ statLog[i].kind = "marker"
                    /\ statLog[i].dir = d
                    /\ statLog[i].path = Join(d, <<call.markers[1]>>)})

Visited(d) == \E i \in 1..Len(statLog) : statLog[i].dir = d

UntilOps ==
    {"FindUpUntil", "FindUpUntilFunc", "FindAllUpUntil", "FindAllUpUntilFunc"}

FuncOps ==
    {"FindUpFunc", "FindUpUntilFunc", "FindAllUpFunc", "FindAllUpUntilFunc"}

\* C4: in a *Until traversal the marker check of a directory comes before
\* its stop check, so a directory holding a matching marker and a stop
\* marker is returned by the single-result query and is the last Match of
\* the all-results query.
C4_TargetBeforeStop ==
    call.op \in UntilOps =>
        /\ \A i \in 1..Len(statLog) :
              statLog[i].kind = "stop" =>
                  /\ \E j \in 1..(i - 1) :
                        /\ statLog[j].kind = "marker"
                        /\ statLog[j].dir = statLog[i].dir
                  /\ \A j \in (i + 1)..Len(statLog) :
                        ~(statLog[j].kind = "marker"
                          /\ statLog[j].dir = statLog[i].dir)
        /\ pc = "done" =>
              \A i \in 1..Len(CutChain) :
                  LET d == CutChain[i]
                  IN  (Visited(d) /\ HasMatch(d) /\ HasStop(d)) =>
                          IF call.collectAll
                          THEN /\ ret.matches # <<>>
                               /\ Last(ret.matches) =
                                     [Dir |-> d, Marker |-> FirstMatching(d)]
                          ELSE /\ ret.found
                               /\ ret.dir = d
                               /\ ret.marker = FirstMatching(d)

\* C4 witness: an all-results search over two directories ends in a
\* directory that holds a matching marker and a stop marker.
C4_Witness ==
    /\ pc = "done"
    /\ call.op = "FindAllUpUntil"
    /\ Len(ret.matches) = 2
    /\ HasStop(Last(ret.matches).Dir)

\* The nearest directory at or above the start that holds a stop marker.
StopDirs == {i \in 1..Len(ChainUp(StartDir)) : HasStop(ChainUp(StartDir)[i])}

NearestStopDir == ChainUp(StartDir)[Min(StopDirs)]

\* C5: in a *Until traversal nothing strictly above the nearest stop
\* directory is tested or reported, so with no match up to that directory
\* the single-result query returns not found.
C5_NothingAboveStop ==
    (call.op \in UntilOps /\ call.markers # <<>> /\ StopDirs # {}) =>
        /\ \A i \in 1..Len(statLog) :
              ~ProperAncestor(statLog[i].dir, NearestStopDir)
        /\ \A i \in 1..Len(results) :
              ~ProperAncestor(results[i].Dir, NearestStopDir)
        /\ pc = "done" =>
              /\ \A i \in 1..Len(ret.matches) :
                    ~ProperAncestor(ret.matches[i].Dir, NearestStopDir)
              /\ (~call.collectAll
                  /\ \A i \in 1..Min(StopDirs) :
                        ~HasMatch(ChainUp(StartDir)[i])) => ret = NoReturn

\* C5 witness: not found although a marker matches above the stop
\* directory.
C5_Witness ==
    /\ pc = "done"
    /\ call.op = "FindUpUntil"
    /\ StopDirs # {}
    /\ ~ret.found
    /\ \E i \in 1..Len(ChainUp(StartDir)) :
          /\ i > Min(StopDirs)
          /\ HasMatch(ChainUp(StartDir)[i])

MatchingDirs == {i \in 1..Len(CutChain) : HasMatch(CutChain[i])}

\* C6 as stated: found exactly when a directory of the cut chain holds a
\* matching marker, the directory is the nearest such one, and the marker
\* is the first of the caller's list that exists in it.
C6_FirstExistingMarker ==
    (pc = "done" /\ ~call.collectAll) =>
        IF MatchingDirs = {} THEN ret = NoReturn
        ELSE /\ ret.found
             /\ ret.dir = CutChain[Min(MatchingDirs)]
             /\ ret.marker = FirstExisting(ret.dir)

\* C6 amended: the marker is the first of the caller's list that exists in
\* the directory and that the predicate, when there is one, accepts.
C6_FirstMatchingMarker ==
    (pc = "done" /\ ~call.collectAll) =>
        IF MatchingDirs = {} THEN ret = NoReturn
        ELSE /\ ret.found
             /\ ret.dir = CutChain[Min(MatchingDirs)]
             /\ ret.marker = FirstMatching(ret.dir)

\* C6 witness: found in an ancestor of the start, with the second marker
\* of the list, the first one existing there and rejected.
C6_Witness ==
    /\ pc = "done"
    /\ ~call.collectAll
    /\ ret.found
    /\ ret.dir # StartDir
    /\ Len(call.markers) = 2
    /\ ret.marker = call.markers[2]
    /\ fileExists(files, Join(ret.dir, <<call.markers[1]>>))

\* C7: the Matches of an all-results search go from nearest to farthest:
\* each is in a proper ancestor of the one before, and the first is in the
\* start directory or an ancestor of it.
C7_NearestToFarthest ==
    (pc = "done" /\ call.collectAll) =>
        /\ \A i \in 1..(Len(ret.matches) - 1) :
              ProperAncestor(ret.matches[i + 1].Dir, ret.matches[i].Dir)
        /\ ret.matches # <<>> => IsPrefix(ret.matches[1].Dir, StartDir)

\* C7 witness: a search that returned two Matches.
C7_Witness ==
    /\ pc = "done"
    /\ call.collectAll
    /\ Len(ret.matches) = 2

\* C8: with a predicate a Match needs d/m to exist and the predicate to
\* accept d/m, the predicate is called for existing paths only, and a
\* predicate that rejects everything leaves nothing found.
C8_PredicateOnExisting ==
    call.op \in FuncOps =>
        /\ \A i \in 1..Len(predLog) : fileExists(files, predLog[i])
        /\ \A i \in 1..Len(results) :
              LET markerPath == Join(results[i].Dir, <<results[i].Marker>>)
              IN  /\ fileExists(files, markerPath)
                  /\ ApplyMatchFn(call.matchFn, markerPath)
                  /\ \E j \in 1..Len(predLog) : predLog[j] = markerPath
        /\ (pc = "done" /\ call.matchFn = "never") => ret = NoReturn

\* C8 witness: nothing found by a predicate that rejected an existing
\* marker of the start directory.
C8_Witness ==
    /\ pc = "done"
    /\ call.op = "FindUpFunc"
    /\ call.matchFn = "never"
    /\ predLog # <<>>
    /\ \E i \in 1..Len(call.markers) :
          fileExists(files, Join(StartDir, <<call.markers[i]>>))
    /\ ret = NoReturn

\* What holds of a traversal at every step: each directory is visited at
\* most once and lies on the chain from the start; the loop is left by a
\* single-result match, a stop marker or a directory that is its own
\* parent; and from the top of the chain without a match nothing is found.
C9_Safety ==
    call.markers # <<>> =>
        /\ LET chain == ChainUp(StartDir)
               onChain == {chain[k] : k \in 1..Len(chain)}
           IN  \A d \in {statLog[i].dir : i \in 1..Len(statLog)} :
                   VisitCount(d) <= 1 /\ d \in onChain
        /\ pc \in {"return", "done"} =>
              \/ ~call.collectAll /\ results # <<>>
              \/ HasStop(dir)
              \/ Dir(dir) = dir
        /\ (pc = "done" /\ Dir(dir) = dir /\ results = <<>>) => ret = NoReturn

\* C9: every search ends, whatever the start path, having visited each
\* directory of the chain at most once.
C9_Terminates == []C9_Safety /\ (pc = "walkUp" ~> pc = "done")

\* C9 witness: a search from a relative start that ends above the last
\* directory of its chain without a match.
C9_Witness ==
    /\ pc = "done"
    /\ call.markers # <<>>
    /\ Len(ChainUp(StartDir)) > 1
    /\ dir = Last(ChainUp(StartDir))
    /\ ret = NoReturn

\* C10: with an empty marker list every operation returns not found or the
\* empty result at once, without any existence check.
C10_EmptyMarkers ==
    (call.op # "none" /\ call.markers = <<>>) =>
        /\ statLog = <<>>
        /\ predLog = <<>>
        /\ pc \in {"walkUp", "return", "done"}
        /\ dir = <<>>
        /\ pc = "done" => ret = NoReturn

\* C10 witness: an empty marker list with a predicate and with a stop
\* marker that exists in the start directory.
C10_Witness ==
    /\ pc = "done"
    /\ call.markers = <<>>
    /\ call.op = "FindAllUpUntilFunc"
    /\ HasStop(StartDir)
    /\ fileExists(files, Join(StartDir, <<"go.mod">>))
    /\ ret = NoReturn

(***************************************************************************)
(* platform_dirs.go: New and NewWithConfig with the AppName check          *)
(*                                                                         *)
(* Here the AppName of a Config is the sequence of its characters, so that *)
(* strings.TrimSpace has something to trim.                                *)
(***************************************************************************)

MaxNameLen == 2

PlatformUnknown == "unknown"

ErrAppNameRequired == "tooldirs: AppName is required"

\* The nil *PlatformDirs.
NilDirs == [nil |-> TRUE]

Whitespace == {" ", "\t"}

RECURSIVE TrimLeft(_)
TrimLeft(cs) ==
    IF cs # <<>> /\ Head(cs) \in Whitespace THEN TrimLeft(Tail(cs)) ELSE cs

RECURSIVE TrimRight(_)
TrimRight(cs) ==
    IF cs # <<>> /\ Last(cs) \in Whitespace THEN TrimRight(Front(cs)) ELSE cs

\* A TrimSpace that trims nothing.
TrimSpace_Nothing(cs) == cs

\* strings.TrimSpace
TrimSpace(cs) == TrimRight(TrimLeft(cs))

\* The Go string made of the characters cs.
RECURSIVE GoString(_)
GoString(cs) == IF cs = <<>> THEN "" ELSE Head(cs) \o GoString(Tail(cs))

\* NewWithConfig with its two results: the instance and the error.
NewWithConfigResult(c, goos) ==
    IF TrimSpace(c.AppName) = <<>>
    THEN [dirs |-> NilDirs, err |-> ErrAppNameRequired]
    ELSE [dirs |-> NewWithConfig([c EXCEPT !.AppName = GoString(c.AppName)],
                                 goos),
          err |-> "nil"]

\* Config{AppName: appName}: every other field has its zero value.
ZeroConfig(appName) ==
    [AppName |-> appName, AppAuthor |-> "", Version |-> "",
     Roaming |-> FALSE, XDGOnAllPlatforms |-> FALSE,
     IncludeXDGFallbacks |-> "nil", EnvOverrides |-> NoOverrides,
     Platform |-> PlatformAuto]

New(appName, goos) == NewWithConfigResult(ZeroConfig(appName), goos)

(***************************************************************************)
(* Construction as a state machine                                         *)
(***************************************************************************)

NameChars == {" ", "\t", "a"}

RECURSIVE NamesOfLen(_)
NamesOfLen(n) ==
    IF n = 0 THEN {<<>>}
    ELSE {Append(s, c) : s \in NamesOfLen(n - 1), c \in NameChars}

AppNames == UNION {NamesOfLen(n) : n \in 0..MaxNameLen}

\* runtime.GOOS of the build.
GoosValues == {"linux", "darwin", "windows", "freebsd", "openbsd", "plan9"}

NewConfigs ==
    [AppName : AppNames, AppAuthor : {""}, Version : {"", "1.0"},
     Roaming : {FALSE}, XDGOnAllPlatforms : {FALSE},
     IncludeXDGFallbacks : {"nil"}, EnvOverrides : {NoOverrides},
     Platform : {PlatformAuto, PlatformUnknown} \cup ConcretePlatforms]

\* The build is for one operating system; no constructor has been called.
InitNew ==
    /\ pd = NilDirs
    /\ env = [v \in EnvVars |-> IF v = "HOME" THEN Home ELSE <<>>]
    /\ \E g \in GoosValues : res = [op |-> "none", goos |-> g]
    /\ WalkIdle

CallNew ==
    /\ res.op = "none"
    /\ \E n \in AppNames :
          /\ pd' = New(n, res.goos).dirs
          /\ res' = [op |-> "New", goos |-> res.goos, cfg |-> ZeroConfig(n),
                     err |-> New(n, res.goos).err]
    /\ UNCHANGED env

CallNewWithConfig ==
    /\ res.op = "none"
    /\ \E c \in NewConfigs :
          /\ pd' = NewWithConfigResult(c, res.goos).dirs
          /\ res' = [op |-> "NewWithConfig", goos |-> res.goos, cfg |-> c,
                     err |-> NewWithConfigResult(c, res.goos).err]
    /\ UNCHANGED env

\* The caller takes the two results and drops the instance.
ReturnNew ==
    /\ res.op # "none"
    /\ res' = [op |-> "none", goos |-> res.goos]
    /\ pd' = NilDirs
    /\ UNCHANGED env

NextNew ==
    \/ CallNew /\ UNCHANGED walkVars
    \/ CallNewWithConfig /\ UNCHANGED walkVars
    \/ ReturnNew /\ UNCHANGED walkVars

SpecNew == InitNew /\ [][NextNew]_vars

\* The platform the documentation of Config.Platform and detectPlatform
\* promises for an operating system name.
PlatformOfGoos(g) ==
    IF g = "darwin" THEN PlatformMacOS
    ELSE IF g = "windows" THEN PlatformWindows
    ELSE IF g = "freebsd" THEN PlatformFreeBSD
    ELSE IF g = "openbsd" THEN PlatformOpenBSD
    ELSE PlatformLinux

IsBlank(cs) == \A i \in 1..Len(cs) : cs[i] \in Whitespace

\* C11: New and NewWithConfig return ErrAppNameRequired with a nil instance
\* exactly when AppName is empty or all whitespace; otherwise a non-nil
\* instance and a nil error, PlatformAuto replaced by the platform of the
\* operating system and a configured platform kept as given.
C11_Construction ==
    res.op \in {"New", "NewWithConfig"} =>
        /\ IsBlank(res.cfg.AppName) <=>
              (res.err = ErrAppNameRequired /\ pd = NilDirs)
        /\ ~IsBlank(res.cfg.AppName) =>
              /\ res.err = "nil"
              /\ pd # NilDirs
              /\ pd.platform # PlatformAuto
              /\ pd.platform =
                    IF res.cfg.Platform = PlatformAuto
                    THEN PlatformOfGoos(res.goos)
                    ELSE res.cfg.Platform

\* C11 witness: a name of blanks only was refused.
C11_Witness ==
    /\ res.op = "NewWithConfig"
    /\ res.cfg.AppName = <<" ", "\t">>
    /\ res.err = ErrAppNameRequired
    /\ pd = NilDirs

C11_AutoReplaced ==
    /\ res.op = "New"
    /\ res.goos = "darwin"
    /\ res.cfg.AppName = <<" ", "a">>
    /\ pd # NilDirs
    /\ pd.platform = PlatformMacOS

(***************************************************************************)
(* platform_dirs.go: system directory resolution                           *)
(*                                                                         *)
(* The value of XDG_CONFIG_DIRS and XDG_DATA_DIRS is a sequence of tokens  *)
(* in which the token ":" is the list separator and the tokens between two *)
(* separators are one path.                                                *)
(***************************************************************************)

\* strings.Split(val, ":"): the parts between separators, empty ones kept.
RECURSIVE SplitFrom(_, _)
SplitFrom(val, cur) ==
    IF val = <<>> THEN <<cur>>
    ELSE IF Head(val) = ":" THEN <<cur>> \o SplitFrom(Tail(val), <<>>)
         ELSE SplitFrom(Tail(val), Append(cur, Head(val)))

Split(val) == SplitFrom(val, <<>>)

xdgSystemEnvVar(dt) ==
    CASE dt = systemConfig -> "XDG_CONFIG_DIRS"
      [] dt = systemData -> "XDG_DATA_DIRS"
      [] OTHER -> ""

xdgSystemDefault(dt) ==
    CASE dt = systemConfig -> <<"/", "etc", "xdg">>
      [] dt = systemData ->
            <<"/", "usr", "local", "share", ":", "/", "usr", "share">>
      [] OTHER -> <<>>

\* A loop over the parts that keeps the empty ones.
RECURSIVE appendParts_KeepEmpty(_, _)
appendParts_KeepEmpty(d, parts) ==
    IF parts = <<>> THEN <<>>
    ELSE <<Join(Head(parts), appPath(d))>>
            \o appendParts_KeepEmpty(d, Tail(parts))

\* The loop of xdgSystemDirs and xdgSystemDirsEnvOnly over the parts: every
\* part that is not empty, with the application path joined to it.
RECURSIVE appendParts(_, _)
appendParts(d, parts) ==
    IF parts = <<>> THEN <<>>
    ELSE IF Head(parts) # <<>>
         THEN <<Join(Head(parts), appPath(d))>> \o appendParts(d, Tail(parts))
         ELSE appendParts(d, Tail(parts))

xdgSystemDirs(d, e, dt) ==
    IF dt \notin {systemConfig, systemData} THEN <<>>
    ELSE LET val == Getenv(e, xdgSystemEnvVar(dt))
         IN  appendParts(d, Split(IF val = <<>> THEN xdgSystemDefault(dt)
                                  ELSE val))

xdgSystemDirsEnvOnly(d, e, dt) ==
    IF dt \notin {systemConfig, systemData} THEN <<>>
    ELSE LET val == Getenv(e, xdgSystemEnvVar(dt))
         IN  IF val = <<>> THEN <<>> ELSE appendParts(d, Split(val))

macOSSystemDirs(d, dt) ==
    IF dt \in {systemConfig, systemData}
    THEN <<Join(<<"/", "Library", "Application Support">>, appPath(d))>>
    ELSE <<>>

windowsSystemDirs(d, dt) ==
    IF dt \in {systemConfig, systemData}
    THEN <<Join(windowsProgramData, windowsAppPath(d))>>
    ELSE <<>>

resolveSystemDirs(d, e, dt) ==
    IF isXDGPlatform(d) THEN xdgSystemDirs(d, e, dt)
    ELSE IF d.cfg.XDGOnAllPlatforms THEN xdgSystemDirs(d, e, dt)
    ELSE IF Len(xdgSystemDirsEnvOnly(d, e, dt)) > 0
         THEN xdgSystemDirsEnvOnly(d, e, dt)
    ELSE IF d.platform = PlatformMacOS THEN macOSSystemDirs(d, dt)
    ELSE IF d.platform = PlatformWindows THEN windowsSystemDirs(d, dt)
    ELSE xdgSystemDirs(d, e, dt)

fhsSystemDir(d, dt) ==
    CASE dt = systemCache -> Join(<<"/", "var", "cache">>, appPath(d))
      [] dt = systemState -> Join(<<"/", "var", "lib">>, appPath(d))
      [] dt = systemLog -> Join(<<"/", "var", "log">>, appPath(d))
      [] dt = systemRuntime -> Join(<<"/", "run">>, appPath(d))
      [] OTHER -> <<>>

macOSSystemSingleDir(d, dt) ==
    CASE dt = systemCache -> Join(<<"/", "Library", "Caches">>, appPath(d))
      [] dt = systemState ->
            Join(<<"/", "Library", "Application Support">>, appPath(d))
      [] dt = systemLog -> Join(<<"/", "Library", "Logs">>, appPath(d))
      [] OTHER -> <<>>

windowsSystemSingleDir(d, dt) ==
    LET base == Join(windowsProgramData, windowsAppPath(d))
    IN  CASE dt = systemCache -> Join(base, <<"cache">>)
          [] dt = systemState -> base
          [] dt = systemLog -> Join(base, <<"log">>)
          [] OTHER -> <<>>

resolveSystemSingleDir(d, dt) ==
    CASE d.platform \in {PlatformLinux, PlatformFreeBSD, PlatformOpenBSD} ->
            fhsSystemDir(d, dt)
      [] d.platform = PlatformMacOS -> macOSSystemSingleDir(d, dt)
      [] d.platform = PlatformWindows -> windowsSystemSingleDir(d, dt)
      [] OTHER -> fhsSystemDir(d, dt)

(***************************************************************************)
(* platform_dirs.go: the public system directory and path queries          *)
(***************************************************************************)

\* path(base, elem...): elem is the sequence of the elements given.
path(base, elem) == Join(base, elem)

\* "if dir := p.fromEnvOverride(...); dir != "" { return ... }": the value of
\* the override when there is one, the resolved value otherwise.
overrideOrDirs(override, resolved) ==
    IF override # <<>> THEN <<override>> ELSE resolved

overrideOrDir(override, resolved) ==
    IF override # <<>> THEN override ELSE resolved

\* "if len(dirs) == 0 { return "" }; return dirs[0]"
firstDir(dirs) == IF Len(dirs) = 0 THEN <<>> ELSE dirs[1]

\* SystemConfigDirs, SystemDataDirs
SystemDirs(d, e, dt) ==
    overrideOrDirs(fromEnvOverride(d, e, dt), resolveSystemDirs(d, e, dt))

\* SystemConfigDir and SystemDataDir (the first directory of the list, ""
\* for an empty list); SystemCacheDir, SystemStateDir, SystemLogDir and
\* SystemRuntimeDir.
SystemDir(d, e, dt) ==
    IF dt \in {systemConfig, systemData}
    THEN firstDir(SystemDirs(d, e, dt))
    ELSE overrideOrDir(fromEnvOverride(d, e, dt),
                       resolveSystemSingleDir(d, dt))

\* SystemConfigPath ... SystemLogPath, and SystemRuntimePath with its check
\* for an empty base.
systemPathFrom(base, dt, elem) ==
    IF dt = systemRuntime /\ base = <<>> THEN <<>> ELSE path(base, elem)

SystemPath(d, e, dt, elem) == systemPathFrom(SystemDir(d, e, dt), dt, elem)

\* UserConfigPath ... UserLogPath
UserPath(d, e, dt, elem) == path(UserDir(d, e, dt), elem)

\* UserRuntimePath: the error of UserRuntimeDir, or the path under it.
userRuntimePathFrom(base, elem) ==
    IF base.err THEN [path |-> <<>>, err |-> TRUE]
    ELSE [path |-> path(base.path, elem), err |-> FALSE]

UserRuntimePath(d, e, elem) ==
    userRuntimePathFrom(UserRuntimeDir(d, e), elem)

(***************************************************************************)
(* The system directories, the overrides and the runtime directory as a    *)
(* state machine                                                           *)
(***************************************************************************)

MaxSysSet == 1

SysEnvVars == EnvVars \cup {"XDG_CONFIG_DIRS", "XDG_DATA_DIRS"}

\* The variables of the host that the bound MaxSysSet counts.
SysXdgVars ==
    {"XDG_CONFIG_DIRS", "XDG_DATA_DIRS", "XDG_RUNTIME_DIR", "XDG_CONFIG_HOME",
     "TMPDIR"}

\* The values the host gives a variable: lists of two directories, a list
\* with an empty part, a list made of a separator alone, and for the
\* application's variable a directory written with a trailing separator.
SysEnvValues(name) ==
    CASE name = "XDG_CONFIG_DIRS" ->
            {<<"/", "a", ":", "/", "b">>, <<"/", "a", ":", ":", "/", "b">>,
             <<":">>}
      [] name = "XDG_DATA_DIRS" -> {<<"/", "b", ":", "/", "a">>, <<":">>}
      [] name = "APP_DIR" -> {<<"/", "o", "">>}
      [] name = "TMPDIR" -> {<<"/", "t">>}
      [] OTHER -> {<<"/", "x">>}

\* EnvOverrides is nil, or names the variable APP_DIR for no directory type
\* or for one of the twelve.
SysOverrideChoices ==
    {NoOverrides} \cup
    {[nil |-> FALSE, AppendAppName |-> a,
      name |-> [dt \in DirTypes |-> IF dt \in named THEN "APP_DIR" ELSE ""]] :
        a \in BOOLEAN,
        named \in {{}} \cup {{dt} : dt \in DirTypes}}

SysConfigs ==
    {c \in [AppName : {"app"},
            AppAuthor : {"", "Acme"},
            Version : {"", "1.0"},
            Roaming : {FALSE},
            XDGOnAllPlatforms : BOOLEAN,
            IncludeXDGFallbacks : {"nil"},
            EnvOverrides : SysOverrideChoices,
            Platform : ConcretePlatforms \cup {PlatformUnknown}] :
        c.Platform # PlatformWindows => c.AppAuthor = ""}

\* The element SystemConfigPath ... SystemRuntimePath are called with.
PathElem == <<"f">>

InitSys ==
    /\ \E c \in SysConfigs : pd = NewWithConfig(c, "linux")
    /\ env = [v \in SysEnvVars |-> IF v = "HOME" THEN Home ELSE <<>>]
    /\ res = NoResult
    /\ WalkIdle

\* os.Setenv by the host, between two queries.
SetenvSys ==
    /\ res = NoResult
    /\ \E name \in SysXdgVars \cup {"APP_DIR"} :
          \E val \in SysEnvValues(name) \cup {<<>>} :
              /\ env[name] # val
              /\ Cardinality({v \in SysXdgVars :
                                IF v = name THEN val # <<>>
                                ELSE env[v] # <<>>}) <= MaxSysSet
              /\ env' = [env EXCEPT ![name] = val]
    /\ UNCHANGED <<pd, res>>

\* SystemConfigDirs, SystemDataDirs
CallSystemDirs ==
    /\ res = NoResult
    /\ \E dt \in {systemConfig, systemData} :
          res' = [op |-> "SystemDirs", dt |-> dt,
                  paths |-> SystemDirs(pd, env, dt), err |-> FALSE]
    /\ UNCHANGED <<pd, env>>

\* SystemConfigDir, SystemDataDir, SystemCacheDir, SystemStateDir,
\* SystemLogDir, SystemRuntimeDir
CallSystemDir ==
    /\ res = NoResult
    /\ \E dt \in SystemDirTypes :
          res' = [op |-> "SystemDir", dt |-> dt,
                  paths |-> <<SystemDir(pd, env, dt)>>, err |-> FALSE]
    /\ UNCHANGED <<pd, env>>

\* SystemConfigPath, SystemDataPath, SystemCachePath, SystemStatePath,
\* SystemLogPath, SystemRuntimePath
CallSystemPath ==
    /\ res = NoResult
    /\ \E dt \in SystemDirTypes :
          res' = [op |-> "SystemPath", dt |-> dt,
                  paths |-> <<SystemPath(pd, env, dt, PathElem)>>,
                  err |-> FALSE]
    /\ UNCHANGED <<pd, env>>

NextSys ==
    \/ SetenvSys /\ UNCHANGED walkVars
    \/ CallUserDir /\ UNCHANGED walkVars
    \/ CallUserRuntimeDir /\ UNCHANGED walkVars
    \/ CallSystemDirs /\ UNCHANGED walkVars
    \/ CallSystemDir /\ UNCHANGED walkVars
    \/ CallSystemPath /\ UNCHANGED walkVars
    \/ Return /\ UNCHANGED walkVars

SpecSys == InitSys /\ [][NextSys]_vars

(***************************************************************************)
(* Claims about the overrides, the system directories and the runtime      *)
(* directory                                                               *)
(***************************************************************************)

\* What the query op for the directory type dt returns on the instance d:
\* the list of a *Dirs query, the one directory of a *Dir query.
QueryResult(d, e, op, dt) ==
    CASE op = "UserDir" /\ dt = userRuntime -> <<UserRuntimeDir(d, e).path>>
      [] op = "UserDir" /\ dt # userRuntime -> <<UserDir(d, e, dt)>>
      [] op = "SystemDirs" -> SystemDirs(d, e, dt)
      [] op = "SystemDir" -> <<SystemDir(d, e, dt)>>
      [] OTHER -> <<>>

DirQueries == {"UserDir", "SystemDirs", "SystemDir"}

\* The value of the variable the override names for the role, empty when it
\* names none or the variable is unset or empty.
OverrideValue(dt) ==
    IF pd.cfg.EnvOverrides.nil \/ pd.cfg.EnvOverrides.name[dt] = "" THEN <<>>
    ELSE env[pd.cfg.EnvOverrides.name[dt]]

\* AppName, followed by Version when one is configured.
NameAndVersion ==
    IF pd.cfg.Version = "" THEN <<pd.cfg.AppName>>
    ELSE <<pd.cfg.AppName, pd.cfg.Version>>

WithoutOverrides == [pd EXCEPT !.cfg.EnvOverrides = NoOverrides]

\* C12: for each of the twelve roles, an override variable that is set gives
\* its value unmodified when AppendAppName is false and join(value,
\* AppName[, Version]) when it is true; when the override names no variable
\* for the role or the variable is unset or empty, the result is the one an
\* instance without EnvOverrides gives.
C12_Override ==
    res.op \in DirQueries =>
        IF OverrideValue(res.dt) = <<>>
        THEN res.paths = QueryResult(WithoutOverrides, env, res.op, res.dt)
        ELSE /\ ~res.err
             /\ res.paths =
                  <<IF pd.cfg.EnvOverrides.AppendAppName
                    THEN Clean(OverrideValue(res.dt) \o NameAndVersion)
                    ELSE OverrideValue(res.dt)>>

\* C12 witness: the system log directory taken from the application's
\* variable with the name and the version appended.
C12_Witness ==
    /\ res.op = "SystemDir"
    /\ res.dt = systemLog
    /\ pd.cfg.EnvOverrides.AppendAppName
    /\ OverrideValue(systemLog) = <<"/", "o", "">>
    /\ pd.cfg.Version = "1.0"
    /\ res.paths = <<(<<"/", "o", "app", "1.0">>)>>

\* The value returned unmodified, trailing separator included.
C12_VerbatimReached ==
    /\ res.op = "UserDir"
    /\ res.dt = userRuntime
    /\ ~pd.cfg.EnvOverrides.AppendAppName
    /\ OverrideValue(userRuntime) # <<>>
    /\ res.paths = <<(<<"/", "o", "">>)>>

HasSegment(p, s) == \E i \in 2..Len(p) : p[i] = s

\* The runtime queries of a platform that has no such directory: the system
\* runtime directory on macOS and Windows, the user runtime directory when
\* the query returns an error.
RuntimeNotSupported ==
    \/ res.dt = systemRuntime
          /\ pd.platform \in {PlatformMacOS, PlatformWindows}
    \/ res.dt = userRuntime /\ res.err

\* C13: outside the runtime queries of a platform without a runtime
\* directory, the primary path of every role is a non-empty absolute path
\* that has the application name as a whole segment and, when a version is
\* configured, the version as a segment too.
C13_PrimaryPathShape ==
    (res.op \in {"UserDir", "SystemDir"} /\ ~RuntimeNotSupported) =>
        /\ res.paths[1] # <<>>
        /\ IsAbs(res.paths[1])
        /\ HasSegment(res.paths[1], pd.cfg.AppName)
        /\ pd.cfg.Version # "" => HasSegment(res.paths[1], pd.cfg.Version)

\* The parts of a colon-separated value, in their order, empty ones kept.
RECURSIVE SegmentsOf(_)
SegmentsOf(val) ==
    IF \A i \in 1..Len(val) : val[i] # ":" THEN <<val>>
    ELSE LET i == CHOOSE k \in 1..Len(val) :
                      val[k] = ":" /\ \A j \in 1..(k - 1) : val[j] # ":"
         IN  <<SubSeq(val, 1, i - 1)>>
                \o SegmentsOf(SubSeq(val, i + 1, Len(val)))

IsNonEmptySegment(s) == s # <<>>

NonEmptySegmentsOf(val) == SelectSeq(SegmentsOf(val), IsNonEmptySegment)

\* Every segment with the application name (and version) appended.
WithAppName(segs) ==
    [i \in 1..Len(segs) |-> Clean(segs[i] \o NameAndVersion)]

SystemListVar(dt) ==
    IF dt = systemConfig THEN env["XDG_CONFIG_DIRS"] ELSE env["XDG_DATA_DIRS"]

SystemListDefault(dt) ==
    IF dt = systemConfig THEN <<"/", "etc", "xdg">>
    ELSE <<"/", "usr", "local", "share", ":", "/", "usr", "share">>

\* The one native system config and data directory of macOS and Windows.
NativeSystemDir ==
    IF pd.platform = PlatformMacOS
    THEN <<"/", "Library", "Application Support">> \o NameAndVersion
    ELSE <<"/", "ProgramData">>
            \o (IF pd.cfg.AppAuthor = "" THEN <<>> ELSE <<pd.cfg.AppAuthor>>)
            \o NameAndVersion

XdgResolved == isXDGPlatform(pd) \/ pd.cfg.XDGOnAllPlatforms

\* A SystemConfigDirs or SystemDataDirs query on one of the five platforms
\* that no override answers.
SystemListQuery ==
    /\ res.op = "SystemDirs"
    /\ pd.platform \in ConcretePlatforms
    /\ OverrideValue(res.dt) = <<>>

\* C14 as stated: the list is every colon-separated segment of the variable
\* (of the default when it is unset or empty) with the application name
\* appended; on macOS and Windows without XDGOnAllPlatforms it is the
\* parsed variable whenever the variable is set and one native path
\* otherwise.
C14_AllSegments ==
    SystemListQuery =>
        IF XdgResolved
        THEN res.paths =
               WithAppName(SegmentsOf(IF SystemListVar(res.dt) = <<>>
                                      THEN SystemListDefault(res.dt)
                                      ELSE SystemListVar(res.dt)))
        ELSE IF SystemListVar(res.dt) # <<>>
             THEN res.paths = WithAppName(SegmentsOf(SystemListVar(res.dt)))
             ELSE res.paths = <<NativeSystemDir>>

\* C14 (amended): the list is every non-empty colon-separated segment of
\* the variable (of the default when it is unset or empty), in the original
\* order, with the application name appended; on macOS and Windows without
\* XDGOnAllPlatforms it is the parsed variable when the variable has a
\* non-empty segment and one native path otherwise, never followed by the
\* XDG default.
C14_NonEmptySegments ==
    SystemListQuery =>
        IF XdgResolved
        THEN res.paths =
               WithAppName(NonEmptySegmentsOf(
                  IF SystemListVar(res.dt) = <<>>
                  THEN SystemListDefault(res.dt)
                  ELSE SystemListVar(res.dt)))
        ELSE IF NonEmptySegmentsOf(SystemListVar(res.dt)) # <<>>
             THEN res.paths =
                    WithAppName(NonEmptySegmentsOf(SystemListVar(res.dt)))
             ELSE res.paths = <<NativeSystemDir>>

\* C14 witness: a list with an empty part in the middle, on Linux.
C14_Witness ==
    /\ SystemListQuery
    /\ res.dt = systemConfig
    /\ pd.platform = PlatformLinux
    /\ env["XDG_CONFIG_DIRS"] = <<"/", "a", ":", ":", "/", "b">>
    /\ res.paths = <<(<<"/", "a", "app">>), (<<"/", "b", "app">>)>>

\* The variable set to a separator alone on macOS: the native directory.
C14_NativeForColon ==
    /\ SystemListQuery
    /\ res.dt = systemData
    /\ pd.platform = PlatformMacOS
    /\ ~pd.cfg.XDGOnAllPlatforms
    /\ env["XDG_DATA_DIRS"] = <<":">>
    /\ res.paths = <<(<<"/", "Library", "Application Support", "app">>)>>

\* C15: SystemConfigDirs and SystemDataDirs are never empty, whatever the
\* value of XDG_CONFIG_DIRS and XDG_DATA_DIRS; SystemConfigDir and
\* SystemDataDir are never the empty string and are the first element of
\* the list; SystemConfigPath(f) and SystemDataPath(f) are never the bare
\* relative name f.
C15_SystemListsNonEmpty ==
    res.dt \in {systemConfig, systemData} =>
        /\ res.op = "SystemDirs" => res.paths # <<>>
        /\ res.op = "SystemDir" =>
              /\ res.paths[1] # <<>>
              /\ SystemDirs(pd, env, res.dt) # <<>>
              /\ res.paths[1] = SystemDirs(pd, env, res.dt)[1]
        /\ res.op = "SystemPath" => res.paths[1] # PathElem

OnLinux == [pd EXCEPT !.platform = PlatformLinux]

\* /var/cache, /var/lib, /var/log and /run.
FhsBase(dt) ==
    IF dt = systemCache THEN <<"/", "var", "cache">>
    ELSE IF dt = systemState THEN <<"/", "var", "lib">>
    ELSE IF dt = systemLog THEN <<"/", "var", "log">>
    ELSE <<"/", "run">>

\* C17: with XDGOnAllPlatforms true every query on macOS and Windows gives
\* what the same instance gives on Linux; the system cache, state, log and
\* runtime directories are /var/cache, /var/lib, /var/log and /run with the
\* application name appended, and the user runtime directory with
\* XDG_RUNTIME_DIR unset is {tempDir}/{appName}-{uid}.
C17_XdgEverywhere ==
    (/\ res.op \in DirQueries
     /\ pd.cfg.XDGOnAllPlatforms
     /\ pd.platform \in {PlatformMacOS, PlatformWindows}) =>
        /\ res.paths = QueryResult(OnLinux, env, res.op, res.dt)
        /\ (/\ res.op = "SystemDir"
            /\ res.dt \notin {systemConfig, systemData}
            /\ OverrideValue(res.dt) = <<>>) =>
                res.paths = <<FhsBase(res.dt) \o NameAndVersion>>
        /\ (/\ res.dt = userRuntime
            /\ OverrideValue(res.dt) = <<>>
            /\ env["XDG_RUNTIME_DIR"] = <<>>) =>
                res.paths =
                  <<TempDir(env) \o <<pd.cfg.AppName \o "-" \o ToString(Uid)>> >>

\* A user directory query on Windows, with an author configured, answered
\* by an override that appends the application name.
WindowsAuthorOverride ==
    /\ res.op = "UserDir"
    /\ pd.platform = PlatformWindows
    /\ pd.cfg.AppAuthor # ""
    /\ ~pd.cfg.EnvOverrides.nil
    /\ pd.cfg.EnvOverrides.AppendAppName
    /\ OverrideValue(res.dt) # <<>>

\* C18 as stated: on Windows with an author and AppendAppName true a user
\* override resolves to join(value, AppAuthor, AppName[, Version]).
C18_OverrideNestsAuthor ==
    WindowsAuthorOverride =>
        res.paths =
          <<Clean(OverrideValue(res.dt) \o <<pd.cfg.AppAuthor>>
                    \o NameAndVersion)>>

\* C18 (amended): on Windows with an author and AppendAppName true a user
\* override resolves to join(value, AppName[, Version]); the author is not
\* part of the path.
C18_OverrideWithoutAuthor ==
    WindowsAuthorOverride =>
        /\ res.paths = <<Clean(OverrideValue(res.dt) \o NameAndVersion)>>
        /\ ~HasSegment(res.paths[1], pd.cfg.AppAuthor)

\* C18 witness: the user cache directory from the override, on Windows with
\* the author Acme and a version.
C18_Witness ==
    /\ WindowsAuthorOverride
    /\ res.dt = userCache
    /\ pd.cfg.AppAuthor = "Acme"
    /\ pd.cfg.Version = "1.0"
    /\ res.paths = <<(<<"/", "o", "app", "1.0">>)>>

RuntimeQuery == res.op = "UserDir" /\ res.dt = userRuntime

\* The user runtime directory the claim describes for Linux and the BSDs,
\* and for macOS when XDG_RUNTIME_DIR is not set.
DescribedRuntimeDir ==
    IF isXDGPlatform(pd) /\ env["XDG_RUNTIME_DIR"] # <<>>
    THEN Clean(env["XDG_RUNTIME_DIR"] \o NameAndVersion)
    ELSE IF isXDGPlatform(pd)
         THEN (IF env["TMPDIR"] = <<>> THEN <<"/", "tmp">> ELSE env["TMPDIR"])
                 \o <<pd.cfg.AppName \o "-" \o ToString(Uid)>>
         ELSE (IF env["TMPDIR"] = <<>> THEN <<"/", "tmp">> ELSE env["TMPDIR"])
                 \o NameAndVersion

RuntimeDirDescribed ==
    \/ isXDGPlatform(pd)
    \/ pd.platform = PlatformMacOS /\ env["XDG_RUNTIME_DIR"] = <<>>

C19_ErrorReached ==
    /\ RuntimeQuery
    /\ pd.platform = PlatformUnknown
    /\ res.err
    /\ res.paths = <<(<<>>)>>

(***************************************************************************)
(* platform_dirs.go: the find utilities                                    *)
(***************************************************************************)

\* The system directory type of the kind of a user directory type.
systemTypeOf(dt) ==
    CASE dt = userConfig -> systemConfig
      [] dt = userData -> systemData
      [] dt = userCache -> systemCache
      [] dt = userState -> systemState
      [] dt = userLog -> systemLog
      [] OTHER -> systemRuntime

\* AllConfigPaths and AllDataPaths (the user path, then one path for every
\* system directory); AllCachePaths, AllStatePaths and AllLogPaths (the user
\* path and the system path).
joinEach(dirs, filename) ==
    [i \in 1..Len(dirs) |-> Join(dirs[i], filename)]

AllPaths(d, e, dt, filename) ==
    <<UserPath(d, e, dt, filename)>>
        \o (IF dt \in {userConfig, userData}
            THEN joinEach(SystemDirs(d, e, systemTypeOf(dt)), filename)
            ELSE <<SystemPath(d, e, systemTypeOf(dt), filename)>>)

\* An AllRuntimePaths that appends the system path even when it is empty.
\* "if userPath, err := p.UserRuntimePath(filename); err == nil { append }"
userRuntimePaths(userRuntimePath) ==
    IF userRuntimePath.err THEN <<>> ELSE <<userRuntimePath.path>>

\* "if sysRuntime := p.SystemRuntimePath(filename); sysRuntime != "" { append }"
sysRuntimePaths(sysRuntime) ==
    IF sysRuntime # <<>> THEN <<sysRuntime>> ELSE <<>>

AllRuntimePaths_KeepEmpty(d, e, filename) ==
    userRuntimePaths(UserRuntimePath(d, e, filename))
        \o <<path(SystemDir(d, e, systemRuntime), filename)>>

AllRuntimePaths(d, e, filename) ==
    userRuntimePaths(UserRuntimePath(d, e, filename))
        \o sysRuntimePaths(SystemPath(d, e, systemRuntime, filename))

\* The loop of Find*File over the paths: the first one that exists (for
\* FindRuntimeFile: that is not empty and exists).
RECURSIVE firstExisting(_, _)
firstExisting(fs, paths) ==
    IF paths = <<>> THEN [path |-> <<>>, found |-> FALSE]
    ELSE IF Head(paths) # <<>> /\ fileExists(fs, Head(paths))
         THEN [path |-> Head(paths), found |-> TRUE]
         ELSE firstExisting(fs, Tail(paths))

\* The loop of Existing*Files over the paths.
RECURSIVE allExisting(_, _)
allExisting(fs, paths) ==
    IF paths = <<>> THEN <<>>
    ELSE IF Head(paths) # <<>> /\ fileExists(fs, Head(paths))
         THEN <<Head(paths)>> \o allExisting(fs, Tail(paths))
         ELSE allExisting(fs, Tail(paths))

\* AllConfigPaths ... AllLogPaths and AllRuntimePaths by kind.
AllPathsOf(d, e, dt, filename) ==
    IF dt = userRuntime THEN AllRuntimePaths(d, e, filename)
    ELSE AllPaths(d, e, dt, filename)

\* FindConfigFile ... FindLogFile, FindRuntimeFile
FindFile(d, e, fs, dt, filename) ==
    firstExisting(fs, AllPathsOf(d, e, dt, filename))

\* ExistingConfigFiles ... ExistingLogFiles, ExistingRuntimeFiles
ExistingFiles(d, e, fs, dt, filename) ==
    allExisting(fs, AllPathsOf(d, e, dt, filename))

(***************************************************************************)
(* The find utilities as a state machine                                   *)
(***************************************************************************)

MaxExisting == 2

FileName == <<"f">>

FindConfigs ==
    [AppName : {"app"},
     AppAuthor : {""},
     Version : {""},
     Roaming : {FALSE},
     XDGOnAllPlatforms : BOOLEAN,
     IncludeXDGFallbacks : {"nil", "false"},
     EnvOverrides :
        {NoOverrides,
         [nil |-> FALSE, AppendAppName |-> TRUE,
          name |-> [dt \in DirTypes |->
                       IF dt = systemRuntime THEN "APP_DIR" ELSE ""]]},
     Platform : {PlatformLinux, PlatformMacOS, PlatformWindows}]

FindEnvVars == {"XDG_CONFIG_DIRS", "APP_DIR"}

\* The kinds whose directories the host puts files into.
FileKinds == {userConfig, userCache, userRuntime}

\* The directories of a kind: every user directory, then the system ones.
RECURSIVE nonEmptyOnly(_)
nonEmptyOnly(dirs) ==
    IF dirs = <<>> THEN <<>>
    ELSE IF Head(dirs) = <<>> THEN nonEmptyOnly(Tail(dirs))
         ELSE <<Head(dirs)>> \o nonEmptyOnly(Tail(dirs))

SearchDirs(d, e, dt) ==
    IF dt = userRuntime
    THEN nonEmptyOnly(<<UserRuntimeDir(d, e).path,
                        SystemDir(d, e, systemRuntime)>>)
    ELSE IF dt \in {userConfig, userData}
         THEN UserDirs(d, e, dt) \o SystemDirs(d, e, systemTypeOf(dt))
         ELSE UserDirs(d, e, dt) \o <<SystemDir(d, e, systemTypeOf(dt))>>

InitFind ==
    /\ \E c \in FindConfigs : pd = NewWithConfig(c, "linux")
    /\ env = [v \in SysEnvVars |-> IF v = "HOME" THEN Home ELSE <<>>]
    /\ res = NoResult
    /\ WalkIdle

\* os.Setenv by the host, between two queries.
SetenvFind ==
    /\ res = NoResult
    /\ \E name \in FindEnvVars :
          \E val \in {<<>>, IF name = "APP_DIR" THEN <<"/", "o">>
                            ELSE <<"/", "a", ":", "/", "b">>} :
              /\ env[name] # val
              /\ env' = [env EXCEPT ![name] = val]
    /\ UNCHANGED <<pd, res>>
    /\ UNCHANGED walkVars

\* The host creates the file in one of the directories of a kind.
CreateFile ==
    /\ res = NoResult
    /\ Cardinality(files) < MaxExisting
    /\ \E dt \in FileKinds :
          \E dirs \in {SearchDirs(pd, env, dt)} :
              \E i \in 1..Len(dirs) :
                  /\ Join(dirs[i], FileName) \notin files
                  /\ files' = files \cup {Join(dirs[i], FileName)}
    /\ UNCHANGED <<pd, env, res>>
    /\ UNCHANGED <<call, pc, dir, results, statLog, predLog, ret>>

\* A Find*File that creates the user directory it is about to look into.
CallFindFile_Creating ==
    /\ res = NoResult
    /\ \E dt \in UserDirKinds :
          \E r \in {FindFile(pd, env, files, dt, FileName)} :
              /\ res' = [op |-> "FindFile", dt |-> dt, paths |-> <<r.path>>,
                         err |-> FALSE, found |-> r.found]
              /\ files' = files \cup {UserDir(pd, env, dt)}
    /\ UNCHANGED <<pd, env>>
    /\ UNCHANGED <<call, pc, dir, results, statLog, predLog, ret>>

\* FindConfigFile ... FindLogFile, FindRuntimeFile
CallFindFile ==
    /\ res = NoResult
    /\ \E dt \in UserDirTypes :
          \E r \in {FindFile(pd, env, files, dt, FileName)} :
              res' = [op |-> "FindFile", dt |-> dt, paths |-> <<r.path>>,
                      err |-> FALSE, found |-> r.found]
    /\ UNCHANGED <<pd, env>>
    /\ UNCHANGED walkVars

\* ExistingConfigFiles ... ExistingLogFiles, ExistingRuntimeFiles
CallExistingFiles ==
    /\ res = NoResult
    /\ \E dt \in UserDirTypes :
          res' = [op |-> "ExistingFiles", dt |-> dt,
                  paths |-> ExistingFiles(pd, env, files, dt, FileName),
                  err |-> FALSE]
    /\ UNCHANGED <<pd, env>>
    /\ UNCHANGED walkVars

\* AllConfigPaths ... AllLogPaths, AllRuntimePaths
CallAllPaths ==
    /\ res = NoResult
    /\ \E dt \in UserDirTypes :
          res' = [op |-> "AllPaths", dt |-> dt,
                  paths |-> AllPathsOf(pd, env, dt, FileName), err |-> FALSE]
    /\ UNCHANGED <<pd, env>>
    /\ UNCHANGED walkVars

NextFind ==
    \/ SetenvFind
    \/ CreateFile
    \/ CallFindFile
    \/ CallExistingFiles
    \/ CallAllPaths
    \/ CallSystemDir /\ UNCHANGED walkVars
    \/ CallSystemPath /\ UNCHANGED walkVars
    \/ Return /\ UNCHANGED walkVars

SpecFind == InitFind /\ [][NextFind]_vars

(***************************************************************************)
(* Claims about the find utilities                                         *)
(***************************************************************************)

\* The value SystemRuntimeDir and SystemRuntimePath return for "not
\* available": the empty string.
NotAvailable == <<>>

NoSystemRuntime ==
    /\ pd.platform \in {PlatformMacOS, PlatformWindows}
    /\ ~pd.cfg.XDGOnAllPlatforms
    /\ OverrideValue(systemRuntime) = <<>>

C16_PathNotAvailable ==
    /\ NoSystemRuntime
    /\ pd.platform = PlatformWindows
    /\ res.op = "SystemPath"
    /\ res.dt = systemRuntime
    /\ res.paths = <<NotAvailable>>

\* The candidates of a kind: the file in every directory of User<K>Dirs (of
\* the user runtime directory for the runtime kind), then in every system
\* directory of the kind.
Candidates(dt) ==
    [i \in 1..Len(SearchDirs(pd, env, dt)) |->
        Clean(SearchDirs(pd, env, dt)[i] \o FileName)]

ExistsNow(p) == fileExists(files, p)

\* C20: Find<K>File returns the first existing candidate of the user
\* directories of K, fallback entry included, followed by the system
\* directories of K, and found=false only when none exists;
\* Existing<K>Files returns the existing candidates in that order.
C20_FindWalksUserDirs ==
    /\ res.op = "FindFile" =>
          IF \E i \in 1..Len(Candidates(res.dt)) : ExistsNow(Candidates(res.dt)[i])
          THEN /\ res.found
               /\ \E i \in 1..Len(Candidates(res.dt)) :
                     /\ ExistsNow(Candidates(res.dt)[i])
                     /\ \A j \in 1..(i - 1) : ~ExistsNow(Candidates(res.dt)[j])
                     /\ res.paths = <<Candidates(res.dt)[i]>>
          ELSE ~res.found
    /\ res.op = "ExistingFiles" =>
          res.paths = SelectSeq(Candidates(res.dt), ExistsNow)

\* The candidates without the fallback entries: the file in the primary
\* user directory, then in the system directories.
PrimaryCandidates(dt) ==
    IF dt = userRuntime THEN Candidates(dt)
    ELSE <<Clean(UserDir(pd, env, dt) \o FileName)>>
            \o SubSeq(Candidates(dt), Len(UserDirs(pd, env, dt)) + 1,
                      Len(Candidates(dt)))

\* What the find utilities do instead: they walk the primary candidates.
C20_FindWalksPrimaryOnly ==
    /\ res.op = "FindFile" =>
          IF \E i \in 1..Len(PrimaryCandidates(res.dt)) :
                ExistsNow(PrimaryCandidates(res.dt)[i])
          THEN /\ res.found
               /\ \E i \in 1..Len(PrimaryCandidates(res.dt)) :
                     /\ ExistsNow(PrimaryCandidates(res.dt)[i])
                     /\ \A j \in 1..(i - 1) :
                           ~ExistsNow(PrimaryCandidates(res.dt)[j])
                     /\ res.paths = <<PrimaryCandidates(res.dt)[i]>>
          ELSE ~res.found
    /\ res.op = "ExistingFiles" =>
          res.paths = SelectSeq(PrimaryCandidates(res.dt), ExistsNow)

\* The file exists in the fallback directory alone and FindConfigFile does
\* not find it.
C20_FallbackMissed ==
    /\ res.op = "FindFile"
    /\ res.dt = userConfig
    /\ pd.platform = PlatformMacOS
    /\ files = {<<"/", "h", ".config", "app", "f">>}
    /\ Len(UserDirs(pd, env, userConfig)) = 2
    /\ ~res.found

(***************************************************************************)
(* The Config a caller passes to NewWithConfig and the one the resolver    *)
(* keeps                                                                   *)
(*                                                                         *)
(* NewWithConfig(cfg Config) receives the struct by value and stores that  *)
(* copy, so the value fields of pd.cfg are the resolver's own.  The fields *)
(* EnvOverrides and IncludeXDGFallbacks are pointers: the copy holds the   *)
(* same two addresses as the caller's Config.  pd.cfg.EnvOverrides and     *)
(* pd.cfg.IncludeXDGFallbacks are the objects the resolver's pointers      *)
(* refer to; call.cfg is the caller's Config, with the objects its         *)
(* pointers refer to, and call.sharedOverrides / call.sharedFallbacks say  *)
(* whether the caller's pointer still holds the address it passed in.      *)
(***************************************************************************)

CfgOverrides(named, a) ==
    [nil |-> FALSE, AppendAppName |-> a,
     name |-> [dt \in DirTypes |-> IF dt \in named THEN "APP_DIR" ELSE ""]]

CfgConfigs ==
    [AppName : {"app"},
     AppAuthor : {""},
     Version : {""},
     Roaming : {FALSE},
     XDGOnAllPlatforms : {FALSE},
     IncludeXDGFallbacks : {"nil", "true"},
     EnvOverrides : {NoOverrides, CfgOverrides({}, FALSE),
                     CfgOverrides({userConfig}, FALSE)},
     Platform : {PlatformLinux, PlatformMacOS}]

\* The state after dirs, err := NewWithConfig(c) has returned to the caller.
InitCfg ==
    /\ \E c \in CfgConfigs :
          /\ pd = NewWithConfig(c, "linux")
          /\ call = [op |-> "NewWithConfig", cfg |-> c,
                     sharedOverrides |-> ~c.EnvOverrides.nil,
                     sharedFallbacks |-> c.IncludeXDGFallbacks # "nil"]
    /\ env = [v \in SysEnvVars |->
                 CASE v = "HOME" -> Home
                   [] v = "APP_DIR" -> <<"/", "o">>
                   [] OTHER -> <<>>]
    /\ res = NoResult
    /\ files = {}
    /\ pc = "idle"
    /\ dir = <<>>
    /\ results = <<>>
    /\ statLog = <<>>
    /\ predLog = <<>>
    /\ ret = NoReturn

\* cfg.Version = ..., cfg.XDGOnAllPlatforms = ...: the caller assigns a
\* value field of its own Config.
CallerSetsField ==
    /\ res = NoResult
    /\ \/ \E v \in {"", "1.0"} :
             /\ call.cfg.Version # v
             /\ call' = [call EXCEPT !.cfg.Version = v]
       \/ call' = [call EXCEPT !.cfg.XDGOnAllPlatforms = ~@]
    /\ UNCHANGED <<pd, env, res>>
    /\ UNCHANGED <<files, pc, dir, results, statLog, predLog, ret>>

\* cfg.EnvOverrides = nil, cfg.EnvOverrides = &EnvOverrides{}: the caller
\* assigns the pointer field of its own Config.
CallerSetsOverridesPointer ==
    /\ res = NoResult
    /\ call.sharedOverrides
    /\ \E o \in {NoOverrides, CfgOverrides({}, FALSE)} :
          call' = [call EXCEPT !.cfg.EnvOverrides = o,
                               !.sharedOverrides = FALSE]
    /\ UNCHANGED <<pd, env, res>>
    /\ UNCHANGED <<files, pc, dir, results, statLog, predLog, ret>>

\* The object a write through a pointer changes: the one object both sides
\* refer to while the caller's pointer holds the address it passed in.
writeThrough(shared, d, field, val) ==
    IF shared THEN [d EXCEPT !.cfg[field] = val] ELSE d

\* cfg.EnvOverrides.UserConfig = ..., cfg.EnvOverrides.AppendAppName = ...:
\* the caller writes through the EnvOverrides pointer of its Config.
CallerWritesOverrides ==
    /\ res = NoResult
    /\ ~call.cfg.EnvOverrides.nil
    /\ \E o \in {[call.cfg.EnvOverrides EXCEPT !.AppendAppName = ~@],
                 [call.cfg.EnvOverrides EXCEPT !.name[userConfig] =
                     IF @ = "" THEN "APP_DIR" ELSE ""]} :
          /\ call' = [call EXCEPT !.cfg.EnvOverrides = o]
          /\ pd' = writeThrough(call.sharedOverrides, pd, "EnvOverrides", o)
    /\ UNCHANGED <<env, res>>
    /\ UNCHANGED <<files, pc, dir, results, statLog, predLog, ret>>

\* *cfg.IncludeXDGFallbacks = ...: the caller writes through the
\* IncludeXDGFallbacks pointer of its Config.
CallerWritesFallbacks ==
    /\ res = NoResult
    /\ call.cfg.IncludeXDGFallbacks # "nil"
    /\ \E b \in {"true", "false"} \ {call.cfg.IncludeXDGFallbacks} :
          /\ call' = [call EXCEPT !.cfg.IncludeXDGFallbacks = b]
          /\ pd' = writeThrough(call.sharedFallbacks, pd,
                                "IncludeXDGFallbacks", b)
    /\ UNCHANGED <<env, res>>
    /\ UNCHANGED <<files, pc, dir, results, statLog, predLog, ret>>

NextCfg ==
    \/ CallerSetsField
    \/ CallerSetsOverridesPointer
    \/ CallerWritesOverrides
    \/ CallerWritesFallbacks
    \/ CallUserDir /\ UNCHANGED walkVars
    \/ CallUserDirs /\ UNCHANGED walkVars
    \/ CallUserRuntimeDir /\ UNCHANGED walkVars
    \/ CallSystemDirs /\ UNCHANGED walkVars
    \/ CallSystemDir /\ UNCHANGED walkVars
    \/ Return /\ UNCHANGED walkVars

SpecCfg == InitCfg /\ [][NextCfg]_vars

\* What every directory query of a resolver returns in an environment.
AllQueries(d, e) ==
    [user |-> [dt \in UserDirKinds |-> UserDirs(d, e, dt)],
     runtime |-> UserRuntimeDir(d, e),
     systems |-> [dt \in {systemConfig, systemData} |-> SystemDirs(d, e, dt)],
     system |-> [dt \in SystemDirTypes |-> SystemDir(d, e, dt)]]

\* C21: once NewWithConfig has returned, no query and no change the caller
\* makes to the Config it passed in, writes through its EnvOverrides and
\* IncludeXDGFallbacks pointers included, changes what any query returns in
\* a fixed environment.
C21_ImmutableSnapshot ==
    [][env' = env => AllQueries(pd', env) = AllQueries(pd, env)]_vars

\* The same, for every step but a write through a pointer the caller
\* passed in: queries and the caller's changes to its own Config value.
C21_ValueFieldsAreACopy ==
    [][\/ CallerWritesOverrides /\ call.sharedOverrides
       \/ CallerWritesFallbacks /\ call.sharedFallbacks
       \/ AllQueries(pd', env) = AllQueries(pd, env)]_vars

\* The caller has changed Version and XDGOnAllPlatforms of its Config and
\* the resolver still holds the values it was built with.
C21_CopyReached ==
    /\ call.op = "NewWithConfig"
    /\ call.cfg.Version = "1.0" /\ pd.cfg.Version = ""
    /\ call.cfg.XDGOnAllPlatforms /\ ~pd.cfg.XDGOnAllPlatforms

(***************************************************************************)
(* platform_dirs.go: the Ensure utilities, with os.MkdirAll one system     *)
(* call at a time                                                          *)
(*                                                                         *)
(* A caller inside os.MkdirAll(path) is at a prefix of path, of k tokens,  *)
(* about to make one system call on it: Stat ("stat": the fast path of the *)
(* frame of that prefix), Mkdir ("mkdir": the parent's frame has returned  *)
(* nil) or Lstat ("lstat": Mkdir has failed).  files holds the paths that  *)
(* exist; the Ensure utilities add directories to it.                      *)
(***************************************************************************)

NumCallers == 2

Callers == 1..NumCallers

Prefix(p, k) == SubSeq(p, 1, k)

\* "if j > 1 { err = MkdirAll(path[:j-1], perm) }": the prefix has a parent
\* other than the root or the working directory.
hasParent(p, k) == IF IsAbs(p) THEN k > 2 ELSE k > 1

\* syscall mkdir: ok when the parent is there and the path is not.
Mkdir(fs, p) ==
    IF fileExists(fs, p) THEN "EEXIST"
    ELSE IF Len(p) > 1 /\ ~fileExists(fs, Front(p)) THEN "ENOENT"
    ELSE "ok"

\* A MkdirAll that returns the error of Mkdir as it is.
mkdirFailed_NoLstat(fs, p) == "error"

\* "dir, err1 := Lstat(path); if err1 == nil && dir.IsDir() { return nil };
\*  return err"
mkdirFailed(fs, p) == IF fileExists(fs, p) THEN "nil" ELSE "error"

\* The frame of the prefix of k tokens has returned nil: the whole call has,
\* or the frame of the next longer prefix goes on to its Mkdir.
frameReturnsNil(proc, p, k) ==
    IF k = Len(p) THEN [proc EXCEPT !.pc = "done"]
    ELSE [proc EXCEPT !.pc = "mkdir", !.k = k + 1]

\* One system call of os.MkdirAll(p) by a caller, and where the caller is
\* after it.
MkdirAllStep(fs, p, proc) ==
    CASE proc.pc = "stat" ->
           IF fileExists(fs, Prefix(p, proc.k))
           THEN [fs |-> fs, proc |-> frameReturnsNil(proc, p, proc.k)]
           ELSE IF hasParent(p, proc.k)
                THEN [fs |-> fs, proc |-> [proc EXCEPT !.k = proc.k - 1]]
                ELSE [fs |-> fs, proc |-> [proc EXCEPT !.pc = "mkdir"]]
      [] proc.pc = "mkdir" ->
           IF Mkdir(fs, Prefix(p, proc.k)) = "ok"
           THEN [fs |-> fs \cup {Prefix(p, proc.k)},
                 proc |-> frameReturnsNil(proc, p, proc.k)]
           ELSE [fs |-> fs,
                 proc |-> [proc EXCEPT !.pc = "lstat",
                              !.mkdirErr = Mkdir(fs, Prefix(p, proc.k))]]
      [] proc.pc = "lstat" ->
           IF mkdirFailed(fs, Prefix(p, proc.k)) = "nil"
           THEN [fs |-> fs, proc |-> frameReturnsNil(proc, p, proc.k)]
           ELSE [fs |-> fs,
                 proc |-> [proc EXCEPT !.pc = "done", !.err = TRUE]]

(***************************************************************************)
(* The Ensure utilities as a state machine                                 *)
(***************************************************************************)

EnsureConfigs ==
    [AppName : {"app"},
     AppAuthor : {""},
     Version : {""},
     Roaming : {FALSE},
     XDGOnAllPlatforms : {FALSE},
     IncludeXDGFallbacks : {"nil"},
     EnvOverrides : {NoOverrides},
     Platform : {PlatformLinux, PlatformMacOS}]

InitEnsure ==
    /\ \E c \in EnsureConfigs : pd = NewWithConfig(c, "linux")
    /\ env = [v \in SysEnvVars |-> IF v = "HOME" THEN Home ELSE <<>>]
    /\ res = NoResult
    /\ files \in {{}, {Home}}
    /\ call = NoCall
    /\ pc = "idle"
    /\ dir = <<>>
    /\ results = <<>>
    /\ statLog = <<>>
    /\ predLog = <<>>
    /\ ret = NoReturn

\* EnsureUserConfigDir ... EnsureUserLogDir, entered by every caller:
\* "dir := d.UserConfigDir()" and the call of os.MkdirAll(dir, 0o700).
CallEnsureUserDir ==
    /\ res = NoResult
    /\ \E dt \in UserDirKinds :
          \E target \in {UserDir(pd, env, dt)} :
              res' = [op |-> "EnsureUserDir", dt |-> dt,
                      paths |-> <<target>>, err |-> FALSE,
                      procs |-> [c \in Callers |->
                                    [pc |-> "stat", k |-> Len(target),
                                     mkdirErr |-> "", err |-> FALSE]]]
    /\ UNCHANGED <<pd, env>>
    /\ UNCHANGED walkVars

\* One system call by one of the callers.
EnsureStep(c) ==
    /\ res.op = "EnsureUserDir"
    /\ res.procs[c].pc # "done"
    /\ \E s \in {MkdirAllStep(files, res.paths[1], res.procs[c])} :
          /\ files' = s.fs
          /\ res' = [res EXCEPT !.procs[c] = s.proc]
    /\ UNCHANGED <<pd, env>>
    /\ UNCHANGED <<call, pc, dir, results, statLog, predLog, ret>>

EnsureSteps == \E c \in Callers : EnsureStep(c)

\* Every caller has its (dir, err).
ReturnEnsure ==
    /\ res.op = "EnsureUserDir"
    /\ \A c \in Callers : res.procs[c].pc = "done"
    /\ res' = NoResult
    /\ UNCHANGED <<pd, env>>
    /\ UNCHANGED walkVars

NextEnsure ==
    \/ CallEnsureUserDir
    \/ EnsureSteps
    \/ ReturnEnsure

SpecEnsure == InitEnsure /\ [][NextEnsure]_vars

\* Every caller inside os.MkdirAll is scheduled again.
SpecEnsureFair ==
    SpecEnsure /\ \A c \in Callers : WF_vars(EnsureStep(c))

(***************************************************************************)
(* Claims about the Ensure utilities                                       *)
(***************************************************************************)

InEnsure == res.op = "EnsureUserDir"

AllReturned == InEnsure /\ \A c \in Callers : res.procs[c].pc = "done"

\* A caller that has returned has a nil error and the directory exists.
EnsureReturnsNil ==
    InEnsure =>
        \A c \in Callers :
            res.procs[c].pc = "done" =>
                /\ ~res.procs[c].err
                /\ fileExists(files, res.paths[1])

\* C22: callers of EnsureUser<K>Dir for the same path, their system calls
\* interleaved in any order, all return the path with a nil error and the
\* directory exists afterwards, a caller whose Mkdir met "already exists"
\* included; a call made when the directory exists changes nothing on the
\* filesystem.
C22_EnsureConcurrent ==
    /\ []EnsureReturnsNil
    /\ [][(InEnsure /\ fileExists(files, res.paths[1])) => files' = files]_vars
    /\ (InEnsure ~> AllReturned)

\* C22 witness: both callers have returned nil for /h/.config/app, the
\* second after its Mkdir of a component failed with "already exists".
C22_Witness ==
    /\ AllReturned
    /\ res.paths = <<(<<"/", "h", ".config", "app">>)>>
    /\ res.procs[1].mkdirErr = ""
    /\ res.procs[2].mkdirErr = "EEXIST"
    /\ ~res.procs[1].err /\ ~res.procs[2].err
    /\ fileExists(files, res.paths[1])

(***************************************************************************)
(* The whole library as one state machine: the directory queries, the find *)
(* utilities, the upward searches and the Ensure utilities, one operation  *)
(* of the host at a time                                                   *)
(***************************************************************************)

MaxEnsured == 3

InitLib ==
    /\ \E c \in EnsureConfigs : pd = NewWithConfig(c, "linux")
    /\ env = [v \in SysEnvVars |-> IF v = "HOME" THEN Home ELSE <<>>]
    /\ res = NoResult
    /\ files \in {{}, {<<"/", "d1", "go.mod">>}}
    /\ call = NoCall
    /\ pc = "idle"
    /\ dir = <<>>
    /\ results = <<>>
    /\ statLog = <<>>
    /\ predLog = <<>>
    /\ ret = NoReturn

\* No search is running and no Ensure call is in progress.
LibIdle == pc = "idle" /\ ~InEnsure

\* No query result is pending and no Ensure call is in progress.
NoQuery == res = NoResult

NextLib ==
    \/ LibIdle /\ CallUserDir /\ UNCHANGED walkVars
    \/ LibIdle /\ CallUserDirs /\ UNCHANGED walkVars
    \/ LibIdle /\ CallUserRuntimeDir /\ UNCHANGED walkVars
    \/ LibIdle /\ CallSystemDirs /\ UNCHANGED walkVars
    \/ LibIdle /\ CallSystemDir /\ UNCHANGED walkVars
    \/ LibIdle /\ CallSystemPath /\ UNCHANGED walkVars
    \/ LibIdle /\ CallAllPaths
    \/ LibIdle /\ CallFindFile
    \/ LibIdle /\ CallExistingFiles
    \/ ~InEnsure /\ Return /\ UNCHANGED walkVars
    \/ NoQuery /\ FindUp /\ UNCHANGED resolverVars
    \/ NoQuery /\ FindUpFunc /\ UNCHANGED resolverVars
    \/ NoQuery /\ FindUpUntil /\ UNCHANGED resolverVars
    \/ NoQuery /\ FindUpUntilFunc /\ UNCHANGED resolverVars
    \/ NoQuery /\ FindAllUp /\ UNCHANGED resolverVars
    \/ NoQuery /\ FindAllUpFunc /\ UNCHANGED resolverVars
    \/ NoQuery /\ FindAllUpUntil /\ UNCHANGED resolverVars
    \/ NoQuery /\ FindAllUpUntilFunc /\ UNCHANGED resolverVars
    \/ WalkUpEntry /\ UNCHANGED resolverVars
    \/ WalkUpLoop /\ UNCHANGED resolverVars
    \/ WalkUpReturn /\ UNCHANGED resolverVars
    \/ Finish /\ UNCHANGED resolverVars
    \/ LibIdle /\ Cardinality(files) < MaxEnsured /\ CallEnsureUserDir
    \/ EnsureSteps
    \/ ReturnEnsure

SpecLib == InitLib /\ [][NextLib]_vars

(***************************************************************************)
(* Claims about the library as a whole                                     *)
(***************************************************************************)

\* The directory an Ensure call in progress was made for, and the
\* directories above it.
EnsuredPaths == {Prefix(res.paths[1], k) : k \in 1..Len(res.paths[1])}

\* C23: no step of a path query (*Dir, *Dirs, *Path), of a Find*, All* or
\* Existing* utility or of a FindUp* search changes the set of files and
\* directories; a step that does change it is a step of EnsureUser*Dir, and
\* it adds, to what was there, the resolved user directory or one of its
\* ancestors that was missing.
C23_NoImplicitCreation ==
    [][files' # files =>
          /\ InEnsure
          /\ res.paths[1] = UserDir(pd, env, res.dt)
          /\ files \subseteq files'
          /\ \A p \in files' \ files :
                p \in EnsuredPaths /\ ~fileExists(files, p)]_vars

\* C23 witness: EnsureUserConfigDir has created /h/.config/app and the two
\* directories above it, next to the one file that was there, and a search
\* made after it has found that file.
C23_Witness ==
    /\ pc = "done"
    /\ ret.found
    /\ res = NoResult
    /\ files = {<<"/", "d1", "go.mod">>, <<"/", "h">>,
                <<"/", "h", ".config">>, <<"/", "h", ".config", "app">>}

(***************************************************************************)
(* findup.go: walkUp as a function of its arguments and the filesystem     *)
(***************************************************************************)

\* The loop of walkUp from directory d on, with the results so far.
RECURSIVE walkUpFrom(_, _, _, _, _, _, _)
walkUpFrom(fs, d, markers, stopAt, matchFn, collectAll, rs) ==
    LET c == checkMarkers(fs, d, markers, matchFn)
        rs1 == IF c.found THEN Append(rs, c.match) ELSE rs
    IN  IF c.found /\ ~collectAll THEN rs1
        ELSE IF shouldStop(fs, d, stopAt).stop THEN rs1
        ELSE IF Dir(d) = d THEN rs1
        ELSE walkUpFrom(fs, Dir(d), markers, stopAt, matchFn, collectAll, rs1)

walkUp(fs, start, getwdFails, markers, stopAt, matchFn, collectAll) ==
    IF Len(markers) = 0 THEN <<>>
    ELSE walkUpFrom(fs, cleanAbsPath(start, getwdFails), markers, stopAt,
                    matchFn, collectAll, <<>>)

\* What the all-results operation returns for the arguments of the search
\* that has just returned.
AllResults ==
    walkUp(files, call.start, call.getwdFails, call.markers, call.stopAt,
           call.matchFn, TRUE)

\* C24: for every start, marker list, stop list and predicate, a FindUp*
\* operation returns found = true exactly when the FindAllUp* operation of
\* the same arguments returns a non-empty sequence, and then its dir and
\* marker are those of the first Match of that sequence; the FindAllUp*
\* operations return the matches of the one traversal.
C24_SingleIsFirstOfAll ==
    pc = "done" =>
        IF call.collectAll THEN ret.matches = AllResults
        ELSE /\ ret.found <=> Len(AllResults) > 0
             /\ ret.found =>
                   /\ ret.dir = AllResults[1].Dir
                   /\ ret.marker = AllResults[1].Marker

\* C24 witness: FindUpUntilFunc has returned the nearer of the two matches
\* FindAllUpUntilFunc returns for its arguments.
C24_Witness ==
    /\ pc = "done"
    /\ call.op = "FindUpUntilFunc"
    /\ ret.found
    /\ Len(AllResults) = 2
    /\ ret.dir = AllResults[1].Dir
    /\ ret.dir # AllResults[2].Dir

(***************************************************************************)
(* Claims about single directory kinds                                     *)
(***************************************************************************)

LogQuery == res.op = "UserDir" /\ res.dt = userLog

\* join(UserStateDir(), "log") in the environment of the query.
LogUnderStateDir == Join(UserDir(pd, env, userState), <<"log">>)

\* C25 as stated: on a platform resolved by the XDG algorithm, when no Log
\* override applies, UserLogDir() is join(UserStateDir(), "log") in every
\* environment and configuration, with XDG_STATE_HOME set and with a State
\* override set included.
C25_LogUnderResolvedState ==
    (LogQuery /\ XdgResolved /\ ~OverrideApplies(userLog)) =>
        res.paths[1] = LogUnderStateDir

\* C25 (amended): the same when no State override applies either.
C25_LogUnderXdgState ==
    (LogQuery /\ XdgResolved /\ ~OverrideApplies(userLog)
       /\ ~OverrideApplies(userState)) =>
        res.paths[1] = LogUnderStateDir

\* C25 witness: UserLogDir on Linux with XDG_STATE_HOME set, for an
\* application with a version.
C25_Witness ==
    /\ LogQuery
    /\ pd.platform = PlatformLinux
    /\ pd.cfg.Version = "1.0"
    /\ ~OverrideApplies(userLog) /\ ~OverrideApplies(userState)
    /\ env["XDG_STATE_HOME"] = <<"/", "x">>
    /\ res.paths = <<(<<"/", "x", "app", "1.0", "log">>)>>

\* The State override applies and the log directory stays where the XDG
\* algorithm puts it.
C25_StateOverrideReached ==
    /\ LogQuery
    /\ pd.platform = PlatformLinux
    /\ OverrideApplies(userState)
    /\ UserDir(pd, env, userState) = <<"/", "o">>
    /\ res.paths = <<(<<"/", "h", ".local", "state", "app", "log">>)>>

\* The resolver that differs from pd in Roaming only.
RoamingTwin == [pd EXCEPT !.cfg.Roaming = ~@]

\* User<K>Dir() or UserRuntimeDir() of a resolver in the environment of the
\* state.
PrimaryOf(d, dt) ==
    IF dt = userRuntime THEN UserRuntimeDir(d, env).path
    ELSE UserDir(d, env, dt)

WindowsQuery == res.op = "UserDir" /\ pd.platform = PlatformWindows

LocalKinds == {userCache, userLog, userRuntime}

LocalSuffix(dt) ==
    CASE dt = userCache -> <<"cache">>
      [] dt = userLog -> <<"log">>
      [] OTHER -> <<"runtime">>

\* {local}/[{author}/]{app}[/{version}]/cache, /log, /runtime
UnderLocalRoot(dt) ==
    Join3(Join(Home, <<"AppData", "Local">>),
          (IF pd.cfg.AppAuthor = "" THEN <<>> ELSE <<pd.cfg.AppAuthor>>)
              \o NameAndVersion,
          LocalSuffix(dt))

\* {root}/[{author}/]{app}[/{version}] under the root a Roaming value picks.
UnderRoot(roaming) ==
    Join(Join(Home, <<"AppData", IF roaming THEN "Roaming" ELSE "Local">>),
         (IF pd.cfg.AppAuthor = "" THEN <<>> ELSE <<pd.cfg.AppAuthor>>)
             \o NameAndVersion)

\* The platform-native rule resolves the kind: no override applies, the XDG
\* variable of the kind is not set and XDGOnAllPlatforms is false.
NativeApplies(dt) ==
    /\ ~OverrideApplies(dt)
    /\ ~pd.cfg.XDGOnAllPlatforms
    /\ Getenv(env, XdgVarOf(dt)) = <<>>

\* C26 as stated: on Windows, for two resolvers that differ in Roaming only,
\* in the same environment, UserCacheDir, UserLogDir and UserRuntimeDir are
\* equal and are {local}/[{author}/]{app}[/{version}]/cache, /log and
\* /runtime, and UserConfigDir, UserDataDir and UserStateDir are under the
\* Local root for the one and under the Roaming root for the other.
C26_RoamingLeavesLocalKinds ==
    WindowsQuery =>
        IF res.dt \in LocalKinds
        THEN /\ res.paths[1] = PrimaryOf(RoamingTwin, res.dt)
             /\ res.paths[1] = UnderLocalRoot(res.dt)
        ELSE /\ res.paths[1] = UnderRoot(pd.cfg.Roaming)
             /\ PrimaryOf(RoamingTwin, res.dt) = UnderRoot(~pd.cfg.Roaming)

\* C26 (amended): the three directories are equal in every environment, and
\* the places named are those of the queries the platform-native rule
\* resolves.
C26_RoamingLeavesNativeLocalKinds ==
    WindowsQuery =>
        IF res.dt \in LocalKinds
        THEN /\ res.paths[1] = PrimaryOf(RoamingTwin, res.dt)
             /\ NativeApplies(res.dt) =>
                   res.paths[1] = UnderLocalRoot(res.dt)
        ELSE NativeApplies(res.dt) =>
                /\ res.paths[1] = UnderRoot(pd.cfg.Roaming)
                /\ PrimaryOf(RoamingTwin, res.dt) = UnderRoot(~pd.cfg.Roaming)

\* C26 witness: the cache directory of a roaming application with an author
\* and a version, under the Local root.
C26_Witness ==
    /\ WindowsQuery
    /\ res.dt = userCache
    /\ pd.cfg.Roaming
    /\ pd.cfg.AppAuthor = "Acme"
    /\ pd.cfg.Version = "1.0"
    /\ NativeApplies(userCache)
    /\ res.paths =
         <<(<<"/", "h", "AppData", "Local", "Acme", "app", "1.0", "cache">>)>>
    /\ PrimaryOf(RoamingTwin, userCache) = res.paths[1]

\* XDG_CACHE_HOME is set and the cache directory is outside the Local root.
C26_XdgCacheReached ==
    /\ WindowsQuery
    /\ res.dt = userCache
    /\ ~OverrideApplies(userCache)
    /\ env["XDG_CACHE_HOME"] = <<"/", "x">>
    /\ res.paths = <<(<<"/", "x", "app">>)>>

(***************************************************************************)
(* fake_dirs.go: FakeDirs, the test double, and its upward search          *)
(*                                                                         *)
(* Of a FakeDirs f the model keeps f.ExistingFiles: whether the map is nil *)
(* and, as a function from its keys to BOOLEAN, what it holds.  A path is  *)
(* a key of the map as the string it is: no Clean is applied to it.        *)
(***************************************************************************)

\* The nil map, and a map of the given keys and values.
NilMap == [nil |-> TRUE, val |-> <<>>]

MapOf(m) == [nil |-> FALSE, val |-> m]

\* A fileExists that takes every key of the map for an existing path.
FakeDirs_fileExists_AnyKey(f, fs, p) ==
    IF ~f.ExistingFiles.nil THEN p \in DOMAIN f.ExistingFiles.val
    ELSE fileExists(fs, p)

\* FakeDirs.fileExists: the map's value for the path, false for a path that
\* is no key of it; os.Stat on the filesystem fs when the map is nil.
FakeDirs_fileExists(f, fs, p) ==
    IF ~f.ExistingFiles.nil
    THEN p \in DOMAIN f.ExistingFiles.val /\ f.ExistingFiles.val[p]
    ELSE fileExists(fs, p)

\* FakeDirs.checkMarkers over the markers left to look at.
RECURSIVE FakeDirs_checkMarkers(_, _, _, _, _)
FakeDirs_checkMarkers(f, fs, d, markers, matchFn) ==
    IF markers = <<>>
    THEN [found |-> FALSE, match |-> [Dir |-> <<>>, Marker |-> ""]]
    ELSE IF /\ FakeDirs_fileExists(f, fs, Join(d, <<Head(markers)>>))
            /\ (matchFn = "nil"
                  \/ ApplyMatchFn(matchFn, Join(d, <<Head(markers)>>)))
         THEN [found |-> TRUE, match |-> [Dir |-> d, Marker |-> Head(markers)]]
         ELSE FakeDirs_checkMarkers(f, fs, d, Tail(markers), matchFn)

\* FakeDirs.shouldStop over the stop markers left to look at.
RECURSIVE FakeDirs_shouldStop(_, _, _, _)
FakeDirs_shouldStop(f, fs, d, stopAt) ==
    IF stopAt = <<>> THEN FALSE
    ELSE IF FakeDirs_fileExists(f, fs, Join(d, <<Head(stopAt)>>)) THEN TRUE
         ELSE FakeDirs_shouldStop(f, fs, d, Tail(stopAt))

\* The loop of FakeDirs.walkUp from directory d on.
RECURSIVE FakeDirs_walkUpFrom(_, _, _, _, _, _, _, _)
FakeDirs_walkUpFrom(f, fs, d, markers, stopAt, matchFn, collectAll, rs) ==
    LET c == FakeDirs_checkMarkers(f, fs, d, markers, matchFn)
        rs1 == IF c.found THEN Append(rs, c.match) ELSE rs
    IN  IF c.found /\ ~collectAll THEN rs1
        ELSE IF FakeDirs_shouldStop(f, fs, d, stopAt) THEN rs1
        ELSE IF Dir(d) = d THEN rs1
        ELSE FakeDirs_walkUpFrom(f, fs, Dir(d), markers, stopAt, matchFn,
                                 collectAll, rs1)

FakeDirs_walkUp(f, fs, start, getwdFails, markers, stopAt, matchFn, collectAll) ==
    IF Len(markers) = 0 THEN <<>>
    ELSE FakeDirs_walkUpFrom(f, fs, cleanAbsPath(start, getwdFails), markers,
                             stopAt, matchFn, collectAll, <<>>)

(***************************************************************************)
(* Claims about FakeDirs and the upward search                             *)
(***************************************************************************)

\* Every path a search of the model can ask for: a marker name in a
\* directory of the chain, in the working directory's chain or in ".".
AskedPaths ==
    {Join(d, <<m>>) :
        d \in {Chain(i) : i \in 0..MaxDepth}
                 \cup {Join(Getwd, <<"d" \o ToString(MaxDepth)>>), Getwd,
                       <<"d" \o ToString(MaxDepth)>>, <<".">>},
        m \in MarkerNames}

\* A FakeDirs whose map has a key for every path asked for and for every
\* path that exists, true for the ones that exist.
FakeWithFalseEntries ==
    [ExistingFiles |->
        MapOf([p \in AskedPaths \cup files |-> fileExists(files, p)])]

\* A FakeDirs whose map has the existing paths as its only keys.
FakeWithTrueEntries ==
    [ExistingFiles |->
        MapOf([p \in {q \in AskedPaths \cup files : fileExists(files, q)}
                  |-> TRUE])]

\* What the operation of the search that has returned returns on a
\* FakeDirs, with a filesystem under it that holds nothing.
FakeResult(f) ==
    operationResult(call.collectAll,
                    FakeDirs_walkUp(f, {}, call.start, call.getwdFails,
                                    call.markers, call.stopAt, call.matchFn,
                                    call.collectAll))

\* C27: when the ExistingFiles map of a FakeDirs marks as existing exactly
\* the paths that exist for the PlatformDirs, each of the eight FindUp*
\* operations returns on the FakeDirs what it returns on the PlatformDirs,
\* for every start, marker list, stop list and predicate.
C27_FakeSameTraversal ==
    pc = "done" =>
        /\ FakeResult(FakeWithFalseEntries) = ret
        /\ FakeResult(FakeWithTrueEntries) = ret

\* C27 witness: FindAllUpUntilFunc has returned two matches on the
\* PlatformDirs, and the same two on the FakeDirs.
C27_Witness ==
    /\ pc = "done"
    /\ call.op = "FindAllUpUntilFunc"
    /\ Len(ret.matches) = 2
    /\ Cardinality(files) = 2
    /\ FakeResult(FakeWithFalseEntries).matches = ret.matches

(***************************************************************************)
(* fake_dirs.go: NewFakeDirs, SetExisting, SetNotExisting and the find     *)
(* utilities of the config kind                                            *)
(***************************************************************************)

\* NewFakeDirs(base): the fields the config utilities and the search read.
NewFakeDirs(base) ==
    [UserConfigHomeVal |-> Join(base, <<"config">>),
     UserConfigDirsVal |-> [nil |-> TRUE, val |-> <<>>],
     SystemConfigDirsVal |-> <<Join(base, <<"system", "config">>)>>,
     ExistingFiles |-> MapOf(<<>>)]

\* f.ExistingFiles[p] = b, after "if f.ExistingFiles == nil { make }".
setStatus(f, p, b) ==
    [f EXCEPT !.ExistingFiles =
        MapOf([q \in (IF @.nil THEN {} ELSE DOMAIN @.val) \cup {p} |->
                  IF q = p THEN b ELSE @.val[q]])]

\* A SetExisting that starts from a new map at every call.
SetExisting_NewMap(f, p) ==
    [f EXCEPT !.ExistingFiles = MapOf([q \in {p} |-> TRUE])]

SetExisting(f, p) == setStatus(f, p, TRUE)

SetNotExisting(f, p) == setStatus(f, p, FALSE)

FakeDirs_UserConfigDirs(f) ==
    IF ~f.UserConfigDirsVal.nil THEN f.UserConfigDirsVal.val
    ELSE IF f.UserConfigHomeVal # <<>> THEN <<f.UserConfigHomeVal>>
    ELSE <<>>

FakeDirs_AllConfigPaths(f, filename) ==
    joinEach(FakeDirs_UserConfigDirs(f), filename)
        \o joinEach(f.SystemConfigDirsVal, filename)

\* The loops of FakeDirs.FindConfigFile and ExistingConfigFiles over the
\* paths.
RECURSIVE FakeDirs_firstExisting(_, _, _)
FakeDirs_firstExisting(f, fs, paths) ==
    IF paths = <<>> THEN [path |-> <<>>, found |-> FALSE]
    ELSE IF FakeDirs_fileExists(f, fs, Head(paths))
         THEN [path |-> Head(paths), found |-> TRUE]
         ELSE FakeDirs_firstExisting(f, fs, Tail(paths))

RECURSIVE FakeDirs_allExisting(_, _, _)
FakeDirs_allExisting(f, fs, paths) ==
    IF paths = <<>> THEN <<>>
    ELSE (IF FakeDirs_fileExists(f, fs, Head(paths)) THEN <<Head(paths)>>
          ELSE <<>>)
            \o FakeDirs_allExisting(f, fs, Tail(paths))

FakeDirs_FindConfigFile(f, fs, filename) ==
    FakeDirs_firstExisting(f, fs, FakeDirs_AllConfigPaths(f, filename))

FakeDirs_ExistingConfigFiles(f, fs, filename) ==
    FakeDirs_allExisting(f, fs, FakeDirs_AllConfigPaths(f, filename))

(***************************************************************************)
(* A FakeDirs in a test, as a state machine                                *)
(*                                                                         *)
(* pd is the FakeDirs, call the SetExisting and SetNotExisting calls made  *)
(* on it so far, files the filesystem of the machine the test runs on.     *)
(***************************************************************************)

MaxSetCalls == 3

FakeBase == <<"/", "b">>

\* The paths a test names: the file in the user and in the system config
\* directory, the first under a second spelling, and a marker.
FakePaths ==
    {<<"/", "b", "config", "f">>, <<"/", "b", "config", "", "f">>,
     <<"/", "b", "system", "config", "f">>, <<"/", "d1", "go.mod">>}

InitFake ==
    /\ pd = NewFakeDirs(FakeBase)
    /\ env = [v \in SysEnvVars |-> IF v = "HOME" THEN Home ELSE <<>>]
    /\ res = NoResult
    /\ files \in {{<<"/", "b", "config", "f">>},
                  {<<"/", "b", "system", "config", "f">>,
                   <<"/", "d1", "d2", "go.mod">>}}
    /\ call = <<>>
    /\ pc = "idle"
    /\ dir = <<>>
    /\ results = <<>>
    /\ statLog = <<>>
    /\ predLog = <<>>
    /\ ret = NoReturn

CallSet(op, p, f) ==
    /\ pd' = f
    /\ call' = Append(call, [op |-> op, path |-> p])
    /\ UNCHANGED <<env, res>>
    /\ UNCHANGED <<files, pc, dir, results, statLog, predLog, ret>>

CallSetExisting ==
    /\ res = NoResult
    /\ Len(call) < MaxSetCalls
    /\ \E p \in FakePaths : CallSet("SetExisting", p, SetExisting(pd, p))

CallSetNotExisting ==
    /\ res = NoResult
    /\ Len(call) < MaxSetCalls
    /\ \E p \in FakePaths : CallSet("SetNotExisting", p, SetNotExisting(pd, p))

CallFakeFindConfigFile ==
    /\ res = NoResult
    /\ \E r \in {FakeDirs_FindConfigFile(pd, files, FileName)} :
          res' = [op |-> "FindFile", dt |-> userConfig, paths |-> <<r.path>>,
                  err |-> FALSE, found |-> r.found]
    /\ UNCHANGED <<pd, env>>
    /\ UNCHANGED walkVars

CallFakeExistingConfigFiles ==
    /\ res = NoResult
    /\ res' = [op |-> "ExistingFiles", dt |-> userConfig,
               paths |-> FakeDirs_ExistingConfigFiles(pd, files, FileName),
               err |-> FALSE]
    /\ UNCHANGED <<pd, env>>
    /\ UNCHANGED walkVars

\* FakeDirs.FindAllUp from the deepest directory of the chain.
CallFakeFindAllUp ==
    /\ res = NoResult
    /\ res' = [op |-> "FindAllUp", dt |-> "",
               paths |-> FakeDirs_walkUp(pd, files, Chain(MaxDepth), FALSE,
                                         <<"go.mod">>, <<>>, "nil", TRUE),
               err |-> FALSE]
    /\ UNCHANGED <<pd, env>>
    /\ UNCHANGED walkVars

NextFake ==
    \/ CallSetExisting
    \/ CallSetNotExisting
    \/ CallFakeFindConfigFile
    \/ CallFakeExistingConfigFiles
    \/ CallFakeFindAllUp
    \/ Return /\ UNCHANGED walkVars

SpecFake == InitFake /\ [][NextFake]_vars

(***************************************************************************)
(* Claims about FakeDirs                                                   *)
(***************************************************************************)

\* The calls made so far that name the path.
CallsNaming(p) == {i \in 1..Len(call) : call[i].path = p}

Max(S) == CHOOSE x \in S : \A y \in S : y <= x

\* The most recent call that names the path was SetExisting.
LastSetExisting(p) ==
    /\ CallsNaming(p) # {}
    /\ call[Max(CallsNaming(p))].op = "SetExisting"

\* The paths among the given ones whose most recent call was SetExisting.
RECURSIVE MarkedOf(_)
MarkedOf(paths) ==
    IF paths = <<>> THEN <<>>
    ELSE (IF LastSetExisting(Head(paths)) THEN <<Head(paths)>> ELSE <<>>)
            \o MarkedOf(Tail(paths))

ConfigCandidates ==
    <<(<<"/", "b", "config", "f">>), (<<"/", "b", "system", "config", "f">>)>>

\* C28: for a FakeDirs of NewFakeDirs, after any sequence of SetExisting
\* and SetNotExisting calls, a path exists for Find*, Existing* and FindUp*
\* exactly when the most recent call that names it was SetExisting, and
\* never when no call names it; a call changes the status of the path it
\* names alone; what exists on the real filesystem plays no part.
C28_LastSetWins ==
    /\ \A p \in FakePaths \cup files :
          FakeDirs_fileExists(pd, files, p) <=> LastSetExisting(p)
    /\ res.op = "FindFile" =>
          /\ res.found <=> MarkedOf(ConfigCandidates) # <<>>
          /\ res.found => res.paths[1] = MarkedOf(ConfigCandidates)[1]
    /\ res.op = "ExistingFiles" => res.paths = MarkedOf(ConfigCandidates)
    /\ res.op = "FindAllUp" =>
          res.paths = IF LastSetExisting(<<"/", "d1", "go.mod">>)
                      THEN <<[Dir |-> <<"/", "d1">>, Marker |-> "go.mod"]>>
                      ELSE <<>>

\* C28 witness: the file is on the real filesystem, SetExisting and then
\* SetNotExisting have named it, SetExisting has named the file of the
\* system directory, and FindConfigFile returns the latter.
C28_Witness ==
    /\ res.op = "FindFile"
    /\ files = {<<"/", "b", "config", "f">>}
    /\ call = <<[op |-> "SetExisting", path |-> <<"/", "b", "config", "f">>],
                [op |-> "SetExisting",
                 path |-> <<"/", "b", "system", "config", "f">>],
                [op |-> "SetNotExisting",
                 path |-> <<"/", "b", "config", "f">>]>>
    /\ res.found
    /\ res.paths = <<(<<"/", "b", "system", "config", "f">>)>>

(***************************************************************************)
(* Claims about the Matches of one directory                               *)
(***************************************************************************)

\* The Matches of the all-results search: the ones collected so far while
\* it runs, the returned ones when it is done.
Collected == IF pc = "done" THEN ret.matches ELSE results

\* The directories whose marker check the search has completed.
CheckedDirs ==
    {d \in {CutChain[i] : i \in 1..Len(CutChain)} :
        pc \in {"return", "done"} \/ ProperAncestor(dir, d)}

MatchesIn(d) == {i \in 1..Len(Collected) : Collected[i].Dir = d}

\* C29: in an all-results search each visited directory contributes at
\* most one Match, however many of the caller's markers exist in it; the
\* Match names the first marker in the caller's order that exists and
\* that the predicate accepts; and a directory where an earlier marker
\* exists and is rejected still contributes the Match of a later one.
C29_OneMatchPerDirectory ==
    (call.collectAll /\ pc \in {"loop", "return", "done"}) =>
        /\ \A i \in 1..Len(Collected) :
              /\ Cardinality(MatchesIn(Collected[i].Dir)) = 1
              /\ HasMatch(Collected[i].Dir)
              /\ Collected[i].Marker = FirstMatching(Collected[i].Dir)
        /\ \A d \in CheckedDirs : HasMatch(d) => MatchesIn(d) # {}

\* C29 witness: both markers exist in the directory the Match names, the
\* first one of the caller's list is rejected by the predicate, and the
\* Match names the second.
C29_Witness ==
    /\ pc = "done"
    /\ call.collectAll
    /\ call.matchFn = "rejectGoMod"
    /\ call.markers = <<"go.mod", ".git">>
    /\ \E i \in 1..Len(ret.matches) :
          /\ fileExists(files, Join(ret.matches[i].Dir, <<"go.mod">>))
          /\ fileExists(files, Join(ret.matches[i].Dir, <<".git">>))
          /\ ret.matches[i].Marker = ".git"

\* C29 witness without a predicate: both markers exist in one directory
\* and the search returns a single Match for it.
C29_SeveralMarkersReached ==
    /\ pc = "done"
    /\ call.collectAll
    /\ call.matchFn = "nil"
    /\ Len(call.markers) = 2
    /\ \E i \in 1..Len(ret.matches) :
          /\ \A m \in MarkerNames :
                fileExists(files, Join(ret.matches[i].Dir, <<m>>))
          /\ Cardinality(MatchesIn(ret.matches[i].Dir)) = 1

(***************************************************************************)
(* Claims about the error of the runtime directory fallback                *)
(***************************************************************************)

\* UserRuntimeDir has answered from the temporary directory fallback: an
\* XDG platform, XDG_RUNTIME_DIR not set, no app override for the kind.
RuntimeFallbackCase ==
    /\ RuntimeQuery
    /\ isXDGPlatform(pd)
    /\ env["XDG_RUNTIME_DIR"] = <<>>
    /\ OverrideValue(userRuntime) = <<>>

\* C30: UserRuntimeDir's error return lets a caller detect the fallback
\* case: on an XDG platform with XDG_RUNTIME_DIR not set, where the
\* temporary directory fallback is all there is, the error is non-nil.
C30_FallbackReturnsError == RuntimeFallbackCase => res.err

====
